---- MODULE Spec2Model ----
(***************************************************************************)
(* State-machine model of the AI gateway of S2-Sentinel Copilot            *)
(* (src/js/services/storage-idb.js, lines 721-1139: ResponseCache and      *)
(* ApiService).                                                            *)
(*                                                                         *)
(* JavaScript strings are modelled as sequences of UTF-16 code units, so   *)
(* that slicing, concatenation, hashing and base-36 rendering are computed *)
(* the way the code computes them.  The Map behind the cache is a sequence *)
(* of entries in insertion order, which is the iteration order of a JS Map.*)
(***************************************************************************)
EXTENDS Integers, Sequences, FiniteSets, TLC

VARIABLES
    cache,      \* ResponseCache.cache: the Map, as a sequence of entries
    now,        \* the wall clock read by Date.now()
    op,         \* SpecCache only: the last ResponseCache operation and its result
    calls,      \* the ApiService.call invocations in flight or finished
    session     \* the ApiService.stream invocation and the callbacks it made

vars == <<cache, now, op, calls, session>>

-----------------------------------------------------------------------------
(* Bounds and scaled program constants.                                    *)

\* ResponseCache.maxSize (storage-idb.js:734 sets 100), scaled down.
maxSize == 2
\* ResponseCache.ttlMs (storage-idb.js:735 sets 30 minutes), in clock ticks.
ttlMs == 1
\* The clock runs from 0 to one tick past the TTL, so that ages below, at and
\* beyond the TTL all occur.
MaxTime == ttlMs + 1

-----------------------------------------------------------------------------
(* String literals, as sequences of code units.                            *)

StrEmpty  == << >>
StrColon  == <<58>>                                   \* ":"
StrM1     == <<109, 49>>                              \* "m1"
StrGemini == <<103, 101, 109, 105, 110, 105>>         \* "gemini"
StrS      == <<83>>                                   \* "S"
Str2p2    == <<50, 43, 50, 63>>                       \* "2+2?"
StrHi     == <<104, 105>>                             \* "hi"
Str4      == <<52>>                                   \* "4"
Str5      == <<53>>                                   \* "5"

\* String.prototype.slice(0, n)
Slice0(s, n) == SubSeq(s, 1, IF Len(s) < n THEN Len(s) ELSE n)

\* s.includes(sub)
Includes(s, sub) ==
    \E i \in 0..(Len(s) - Len(sub)) : SubSeq(s, i + 1, i + Len(sub)) = sub

-----------------------------------------------------------------------------
(* ResponseCache.generateKey                                               *)

\* Number of leading characters of systemPrompt that enter the key.
KeyPrefixLen == 200

\* One round of the loop body: hash = ((hash << 5) - hash) + c; hash |= 0.
\* The 32-bit word is kept as two 16-bit halves <<hi, lo>> so that the
\* arithmetic wraps modulo 2^32 exactly as the int32 operations do.
HashStep(h, c) ==
    LET lo  == h[2] * 31 + c
        hi  == h[1] * 31 + (lo \div 65536)
    IN  <<hi % 65536, lo % 65536>>

\* The loop over str[lo..hi], in order, from the word h.  The range is
\* halved so that the evaluation nests only logarithmically deep.
RECURSIVE HashRange(_, _, _, _)
HashRange(h, str, lo, hi) ==
    IF lo > hi THEN h
    ELSE IF lo = hi THEN HashStep(h, str[lo])
    ELSE LET mid  == (lo + hi) \div 2
             left == HashRange(h, str, lo, mid)
         IN  \* the word after the left half, computed before the right half
             IF left \in Seq(Nat) THEN HashRange(left, str, mid + 1, hi)
                                  ELSE left

\* The signed value of the word (the effect of "| 0").
ToInt32(h) == IF h[1] >= 32768 THEN (h[1] - 65536) * 65536 + h[2]
                               ELSE h[1] * 65536 + h[2]

\* The digit characters of Number.prototype.toString(36).
Digit36(d) == IF d < 10 THEN 48 + d ELSE 87 + d

RECURSIVE Digits36(_)
Digits36(n) ==
    IF n < 36 THEN <<Digit36(n)>>
              ELSE Append(Digits36(n \div 36), Digit36(n % 36))

\* n.toString(36) for an int32 n; a negative n renders as "-" and the digits
\* of |n|, computed from m = -(n + 1) so that |n| = 2^31 needs no wider word.
ToString36(n) ==
    IF n >= 0 THEN Digits36(n)
    ELSE LET m    == -(n + 1)
             last == ((m % 36) + 1) % 36
             rest == (m \div 36) + (IF m % 36 = 35 THEN 1 ELSE 0)
         IN  <<45>> \o (IF rest = 0 THEN <<>> ELSE Digits36(rest))
                    \o <<Digit36(last)>>

\* Variant of generateKey that hashes the whole systemPrompt.
generateKey_wholePrompt(systemPrompt, userPrompt, model) ==
    LET str == model \o StrColon \o systemPrompt \o StrColon \o userPrompt
    IN  ToString36(ToInt32(HashRange(<<0, 0>>, str, 1, Len(str))))

\* generateKey(systemPrompt, userPrompt, model), lines 740-748.
generateKey(systemPrompt, userPrompt, model) ==
    LET str == model \o StrColon \o Slice0(systemPrompt, KeyPrefixLen)
                     \o StrColon \o userPrompt
    IN  ToString36(ToInt32(HashRange(<<0, 0>>, str, 1, Len(str))))

-----------------------------------------------------------------------------
(* The JS Map: entries [key, value] in insertion order.                    *)

MapKeys(m) == {m[i].key : i \in 1..Len(m)}
MapHas(m, k) == k \in MapKeys(m)
MapIndex(m, k) == CHOOSE i \in 1..Len(m) : m[i].key = k
MapGet(m, k) == m[MapIndex(m, k)].value
\* Variant of Map.prototype.set that always adds an entry.
MapSet_append(m, k, v) == Append(m, [key |-> k, value |-> v])

\* Variant of Map.prototype.set that keeps the value of an existing key.
MapSet_keepFirst(m, k, v) ==
    IF MapHas(m, k) THEN m ELSE Append(m, [key |-> k, value |-> v])

\* Map.prototype.set: an existing key keeps its place, a new key goes last.
MapSet(m, k, v) ==
    IF MapHas(m, k)
    THEN [m EXCEPT ![MapIndex(m, k)] = [key |-> k, value |-> v]]
    ELSE Append(m, [key |-> k, value |-> v])
MapDelete(m, k) ==
    IF MapHas(m, k)
    THEN SubSeq(m, 1, MapIndex(m, k) - 1) \o SubSeq(m, MapIndex(m, k) + 1, Len(m))
    ELSE m
\* this.cache.keys().next().value
MapFirstKey(m) == m[1].key

-----------------------------------------------------------------------------
(* ResponseCache                                                           *)

\* A JS value that is either null or a string.
Null == [isNull |-> TRUE, text |-> StrEmpty]
Text(s) == [isNull |-> FALSE, text |-> s]
\* JS truthiness of such a value: null and "" are falsy.
Truthy(v) == ~v.isNull /\ v.text # StrEmpty

\* Variant of get that refreshes the position of an entry it hits, as an LRU
\* cache would.
ResponseCache_get_touch(c, key, t) ==
    IF ~MapHas(c, key)
    THEN [cache |-> c, ret |-> Null]
    ELSE IF t - MapGet(c, key).timestamp > ttlMs
         THEN [cache |-> MapDelete(c, key), ret |-> Null]
         ELSE [cache |-> Append(MapDelete(c, key),
                                [key |-> key, value |-> MapGet(c, key)]),
               ret |-> Text(MapGet(c, key).response)]

\* Variant of get that, on finding its entry expired, removes every expired
\* entry and not only its own.
ResponseCache_get_purge(c, key, t) ==
    IF ~MapHas(c, key)
    THEN [cache |-> c, ret |-> Null]
    ELSE IF t - MapGet(c, key).timestamp > ttlMs
         THEN [cache |-> SelectSeq(c, LAMBDA e :
                             ~(t - e.value.timestamp > ttlMs)),
               ret |-> Null]
         ELSE [cache |-> c, ret |-> Text(MapGet(c, key).response)]

\* get(key) at clock t: the cache afterwards and the value returned.
ResponseCache_get(c, key, t) ==
    IF ~MapHas(c, key)
    THEN [cache |-> c, ret |-> Null]
    ELSE IF t - MapGet(c, key).timestamp > ttlMs
         THEN [cache |-> MapDelete(c, key), ret |-> Null]
         ELSE [cache |-> c, ret |-> Text(MapGet(c, key).response)]

\* Variant of set that evicts only above capacity (">" for ">=").
ResponseCache_set_lateEvict(c, key, response, t) ==
    LET evicted == IF Len(c) > maxSize THEN MapDelete(c, MapFirstKey(c)) ELSE c
    IN  MapSet(evicted, key, [response |-> response, timestamp |-> t])

\* Variant of set that evicts the newest key instead of the oldest.
ResponseCache_set_evictNewest(c, key, response, t) ==
    LET evicted == IF Len(c) >= maxSize THEN MapDelete(c, c[Len(c)].key) ELSE c
    IN  MapSet(evicted, key, [response |-> response, timestamp |-> t])

\* set(key, response) at clock t: the cache afterwards.
ResponseCache_set(c, key, response, t) ==
    LET evicted == IF Len(c) >= maxSize THEN MapDelete(c, MapFirstKey(c)) ELSE c
    IN  MapSet(evicted, key, [response |-> response, timestamp |-> t])

\* Variant of clear that keeps the newest entry.
ResponseCache_clear_keepNewest(c) ==
    IF c = << >> THEN << >> ELSE <<c[Len(c)]>>

\* clear(): the cache afterwards.
ResponseCache_clear(c) == << >>

-----------------------------------------------------------------------------
(* The requests the model draws from.                                      *)

Models      == {StrM1}
SysPrompts  == {StrS}
UserPrompts == {Str2p2, StrHi}
\* What an adapter can resolve with.
Responses   == {StrEmpty, Str4}
\* The texts SpecCache stores.
Texts       == {StrEmpty, Str4, Str5}

\* Prompts whose hashed strings coincide: "Aa" and "BB" have the same hash,
\* and "x:y" with "z" concatenates to the same string as "x" with "y:z".
ShareSysPrompts  == {StrS, <<120>>, <<120, 58, 121>>}      \* "S", "x", "x:y"
ShareUserPrompts ==                               \* "Aa", "BB", "z", "y:z"
    {<<65, 97>>, <<66, 66>>, <<122>>, <<121, 58, 122>>}

\* generateKey tabulated over the prompts and models that occur: the
\* requests' own, and the literal 'gemini' of the secondary-only branch.
KeyOf ==
    [s \in SysPrompts \cup ShareSysPrompts,
     u \in UserPrompts \cup ShareUserPrompts,
     m \in Models \cup {StrGemini} |-> generateKey(s, u, m)]

\* Every key ApiService.call can compute for these requests.
CacheKeys ==
    {KeyOf[s, u, m] : s \in SysPrompts, u \in UserPrompts,
                      m \in Models \cup {StrGemini}}

-----------------------------------------------------------------------------
(* SpecCache: ResponseCache driven directly, one operation per step.       *)

\* The state of ApiService.stream before it is called.  path is the branch
\* taken ("fallback" without a primary key, else "primary"); body, pos and
\* pending are the response body, the bytes read so far and the bytes the
\* TextDecoder holds back; events is the log of callback invocations;
\* throwing is the set of caller callbacks that throw when invoked.  Two
\* fields observe the read loop: doneSeen, whether a '[DONE]' line has been
\* processed, and lateChunks, the number of onChunk invocations made after
\* one was.
NoSession ==
    [pc |-> "idle", path |-> "none",
     apiKeys |-> [cerebras |-> FALSE, gemini |-> FALSE],
     body |-> << >>, pos |-> 0, pending |-> << >>, fullText |-> << >>,
     events |-> << >>, throwing |-> {}, doneSeen |-> FALSE, lateChunks |-> 0]

NoOp == [name |-> "none", key |-> StrEmpty, response |-> StrEmpty,
         ret |-> Null, pre |-> << >>, at |-> 0]

InitCache ==
    /\ cache = << >>
    /\ now = 0
    /\ op = NoOp
    /\ calls = << >>
    /\ session = NoSession

Tick ==
    /\ now < MaxTime
    /\ now' = now + 1
    /\ UNCHANGED <<cache, op, calls, session>>

CacheGet(k) ==
    LET r == ResponseCache_get(cache, k, now)
    IN  /\ cache' = r.cache
        /\ op' = [name |-> "get", key |-> k, response |-> StrEmpty,
                  ret |-> r.ret, pre |-> cache, at |-> now]
        /\ UNCHANGED <<now, calls, session>>

CacheSet(k, r) ==
    /\ cache' = ResponseCache_set(cache, k, r, now)
    /\ op' = [name |-> "set", key |-> k, response |-> r,
              ret |-> Null, pre |-> cache, at |-> now]
    /\ UNCHANGED <<now, calls, session>>

CacheClear ==
    /\ cache' = ResponseCache_clear(cache)
    /\ op' = [name |-> "clear", key |-> StrEmpty, response |-> StrEmpty,
              ret |-> Null, pre |-> cache, at |-> now]
    /\ UNCHANGED <<now, calls, session>>

NextCache ==
    \/ \E k \in CacheKeys : CacheGet(k)
    \/ \E k \in CacheKeys, r \in Texts : CacheSet(k, r)
    \/ CacheClear
    \/ Tick

SpecCache == InitCache /\ [][NextCache]_vars

-----------------------------------------------------------------------------
(* ApiService.call                                                         *)

StrBothFailed == <<66, 111, 116, 104, 32, 65, 80, 73, 115, 32, 102, 97, 105,
                   108, 101, 100, 46, 32, 67, 101, 114, 101, 98, 114, 97,
                   115, 58, 32>>          \* "Both APIs failed. Cerebras: "
StrCommaGemini == <<44, 32, 71, 101, 109, 105, 110, 105, 58, 32>>
                                          \* ", Gemini: "
StrNoKeys == <<78, 111, 32, 65, 80, 73, 32, 107, 101, 121, 115, 32, 99, 111,
               110, 102, 105, 103, 117, 114, 101, 100, 46, 32, 80, 108, 101,
               97, 115, 101, 32, 97, 100, 100, 32, 97, 110, 32, 65, 80, 73,
               32, 107, 101, 121, 32, 105, 110, 32, 115, 101, 116, 116, 105,
               110, 103, 115, 46>>
               \* "No API keys configured. Please add an API key in settings."
StrC1 == <<99, 49>>                       \* "c1", a Cerebras error message
StrG1 == <<103, 49>>                      \* "g1", a Gemini error message

\* An Error object: its message and the code that created it.
Error(msg, by) == [message |-> msg, thrownBy |-> by]
NoError == Error(StrEmpty, "none")
\* What ApiService.Cerebras.call and ApiService.Gemini.call can throw.
CerebrasErrors == {Error(StrC1, "Cerebras.call")}
GeminiErrors   == {Error(StrG1, "Gemini.call")}

\* The options object of a call.  apiKeys records which keys are truthy.
\* The (useCache, stream) options drawn: the cacheable combination and both
\* ways of switching the cache off.
CacheOptions == {<<TRUE, FALSE>>, <<FALSE, FALSE>>, <<TRUE, TRUE>>}
Requests ==
    {r \in [systemPrompt : SysPrompts, userPrompt : UserPrompts, model : Models,
            apiKeys : [cerebras : BOOLEAN, gemini : BOOLEAN],
            useCache : BOOLEAN, stream : BOOLEAN] :
        <<r.useCache, r.stream>> \in CacheOptions}

NoRequest == [systemPrompt |-> StrEmpty, userPrompt |-> StrEmpty,
              model |-> StrEmpty,
              apiKeys |-> [cerebras |-> FALSE, gemini |-> FALSE],
              useCache |-> FALSE, stream |-> FALSE]

\* The outcome of a call: the object returned, or the error thrown.  A result
\* object without a failover property has failover = FALSE here.
NoResult == [kind |-> "none", response |-> StrEmpty, provider |-> "none",
             cached |-> FALSE, failover |-> FALSE, error |-> NoError]
Returned(response, provider, cached, failover) ==
    [kind |-> "return", response |-> response, provider |-> provider,
     cached |-> cached, failover |-> failover, error |-> NoError]
Thrown(e) ==
    [kind |-> "throw", response |-> StrEmpty, provider |-> "none",
     cached |-> FALSE, failover |-> FALSE, error |-> e]

\* One invocation of ApiService.call.  pc is the await it is suspended at;
\* cerebrasError is the caught primary error.  The remaining fields observe
\* the invocation: the key handed to ResponseCache.get and to
\* ResponseCache.set (Null when not called), the adapter invocations made,
\* and whether the call repeats the previous one while that one's entry is
\* still cached and younger than the TTL.
IdleCall == [pc |-> "idle", req |-> NoRequest, cerebrasError |-> NoError,
             res |-> NoResult, lookupKey |-> Null, storedKey |-> Null,
             nCerebras |-> 0, nGemini |-> 0, repeatsLive |-> FALSE]

Procs == {1}

Cacheable(req) == req.useCache /\ ~req.stream

\* Whether call record p finished by storing a provider's response for the
\* same model, systemPrompt and userPrompt as req, and the entry it stored is
\* still in cache c at clock t, younger than the TTL.
RepeatsLive(p, req, c, t) ==
    /\ p.pc = "done"
    /\ p.res.kind = "return"
    /\ p.res.provider # "cache"
    /\ Cacheable(p.req)
    /\ p.req.model = req.model
    /\ p.req.systemPrompt = req.systemPrompt
    /\ p.req.userPrompt = req.userPrompt
    /\ ~p.storedKey.isNull
    /\ MapHas(c, p.storedKey.text)
    /\ MapGet(c, p.storedKey.text).response = p.res.response
    /\ t - MapGet(c, p.storedKey.text).timestamp < ttlMs

\* Variant of the start of call that tries the secondary adapter first when
\* both keys are present.
ApiService_call_start_secondaryFirst(p, req, c, t) ==
    LET cacheKey == KeyOf[req.systemPrompt, req.userPrompt, req.model]
        got      == IF Cacheable(req) THEN ResponseCache_get(c, cacheKey, t)
                                      ELSE [cache |-> c, ret |-> Null]
        base     == [IdleCall EXCEPT
                        !.req = req,
                        !.lookupKey = IF Cacheable(req) THEN Text(cacheKey)
                                                        ELSE Null,
                        !.repeatsLive = RepeatsLive(p, req, c, t)]
    IN  [cache |-> got.cache,
         call  |->
            IF Cacheable(req) /\ Truthy(got.ret)
            THEN [base EXCEPT !.pc = "done",
                     !.res = Returned(got.ret.text, "cache", TRUE, FALSE)]
            ELSE IF req.apiKeys.gemini
            THEN [base EXCEPT !.pc = "awaitGeminiOnly", !.nGemini = 1]
            ELSE IF req.apiKeys.cerebras
            THEN [base EXCEPT !.pc = "awaitCerebras", !.nCerebras = 1]
            ELSE [base EXCEPT !.pc = "done",
                     !.res = Thrown(Error(StrNoKeys, "ApiService.call"))]]

\* Variant of the start of call that checks the keys before the cache.
ApiService_call_start_keysFirst(p, req, c, t) ==
    LET cacheKey == KeyOf[req.systemPrompt, req.userPrompt, req.model]
        noKeys   == ~req.apiKeys.cerebras /\ ~req.apiKeys.gemini
        got      == IF Cacheable(req) /\ ~noKeys
                    THEN ResponseCache_get(c, cacheKey, t)
                    ELSE [cache |-> c, ret |-> Null]
        base     == [IdleCall EXCEPT
                        !.req = req,
                        !.lookupKey = IF Cacheable(req) THEN Text(cacheKey)
                                                        ELSE Null,
                        !.repeatsLive = RepeatsLive(p, req, c, t)]
    IN  [cache |-> got.cache,
         call  |->
            IF noKeys
            THEN [base EXCEPT !.pc = "done",
                     !.res = Thrown(Error(StrNoKeys, "ApiService.call"))]
            ELSE IF Cacheable(req) /\ Truthy(got.ret)
            THEN [base EXCEPT !.pc = "done",
                     !.res = Returned(got.ret.text, "cache", TRUE, FALSE)]
            ELSE IF req.apiKeys.cerebras
            THEN [base EXCEPT !.pc = "awaitCerebras", !.nCerebras = 1]
            ELSE [base EXCEPT !.pc = "awaitGeminiOnly", !.nGemini = 1]]

\* Lines 807-913 up to the first await (or to the return or throw, when no
\* adapter is awaited): the cache check, then the choice of adapter.
ApiService_call_start(p, req, c, t) ==
    LET cacheKey == KeyOf[req.systemPrompt, req.userPrompt, req.model]
        got      == IF Cacheable(req) THEN ResponseCache_get(c, cacheKey, t)
                                      ELSE [cache |-> c, ret |-> Null]
        base     == [IdleCall EXCEPT
                        !.req = req,
                        !.lookupKey = IF Cacheable(req) THEN Text(cacheKey)
                                                        ELSE Null,
                        !.repeatsLive = RepeatsLive(p, req, c, t)]
    IN  [cache |-> got.cache,
         call  |->
            IF Cacheable(req) /\ Truthy(got.ret)
            THEN [base EXCEPT !.pc = "done",
                     !.res = Returned(got.ret.text, "cache", TRUE, FALSE)]
            ELSE IF req.apiKeys.cerebras
            THEN [base EXCEPT !.pc = "awaitCerebras", !.nCerebras = 1]
            ELSE IF req.apiKeys.gemini
            THEN [base EXCEPT !.pc = "awaitGeminiOnly", !.nGemini = 1]
            ELSE [base EXCEPT !.pc = "done",
                     !.res = Thrown(Error(StrNoKeys, "ApiService.call"))]]

\* Variant of the primary success path that flags the result as a failover.
ApiService_call_cerebrasOk_failover(p, response, c, t) ==
    LET cacheKey == KeyOf[p.req.systemPrompt, p.req.userPrompt, p.req.model]
    IN  [cache |-> IF Cacheable(p.req)
                   THEN ResponseCache_set(c, cacheKey, response, t) ELSE c,
         call  |-> [p EXCEPT !.pc = "done",
                      !.storedKey = IF Cacheable(p.req) THEN Text(cacheKey)
                                                        ELSE Null,
                      !.res = Returned(response, "cerebras", FALSE, TRUE)]]

\* Variant of the primary success path that caches whatever the options say.
ApiService_call_cerebrasOk_alwaysStore(p, response, c, t) ==
    LET cacheKey == KeyOf[p.req.systemPrompt, p.req.userPrompt, p.req.model]
    IN  [cache |-> ResponseCache_set(c, cacheKey, response, t),
         call  |-> [p EXCEPT !.pc = "done",
                      !.storedKey = IF Cacheable(p.req) THEN Text(cacheKey)
                                                        ELSE Null,
                      !.res = Returned(response, "cerebras", FALSE, FALSE)]]

\* Lines 844-855: the primary adapter's promise resolved.
ApiService_call_cerebrasOk(p, response, c, t) ==
    LET cacheKey == KeyOf[p.req.systemPrompt, p.req.userPrompt, p.req.model]
    IN  [cache |-> IF Cacheable(p.req)
                   THEN ResponseCache_set(c, cacheKey, response, t) ELSE c,
         call  |-> [p EXCEPT !.pc = "done",
                      !.storedKey = IF Cacheable(p.req) THEN Text(cacheKey)
                                                        ELSE Null,
                      !.res = Returned(response, "cerebras", FALSE, FALSE)]]

\* Variant of the primary failure path that wraps the error it rethrows.
ApiService_call_cerebrasFail_wrapped(p, e) ==
    IF p.req.apiKeys.gemini
    THEN [p EXCEPT !.pc = "awaitGeminiFailover", !.cerebrasError = e,
                   !.nGemini = @ + 1]
    ELSE [p EXCEPT !.pc = "done", !.cerebrasError = e,
                   !.res = Thrown(Error(e.message, "ApiService.call"))]

\* Variant of the primary failure path that tries the primary adapter a
\* second time before failing over.
ApiService_call_cerebrasFail_retry(p, e) ==
    IF p.nCerebras < 2
    THEN [p EXCEPT !.pc = "awaitCerebras", !.nCerebras = @ + 1]
    ELSE IF p.req.apiKeys.gemini
    THEN [p EXCEPT !.pc = "awaitGeminiFailover", !.cerebrasError = e,
                   !.nGemini = @ + 1]
    ELSE [p EXCEPT !.pc = "done", !.cerebrasError = e, !.res = Thrown(e)]

\* Lines 856-867 and 886: the primary adapter's promise rejected.
ApiService_call_cerebrasFail(p, e) ==
    IF p.req.apiKeys.gemini
    THEN [p EXCEPT !.pc = "awaitGeminiFailover", !.cerebrasError = e,
                   !.nGemini = @ + 1]
    ELSE [p EXCEPT !.pc = "done", !.cerebrasError = e, !.res = Thrown(e)]

\* Variant of the failover success path that caches under the 'gemini' key,
\* as the secondary-only branch does.
ApiService_call_failoverOk_geminiKey(p, response, c, t) ==
    LET cacheKey == KeyOf[p.req.systemPrompt, p.req.userPrompt, StrGemini]
    IN  [cache |-> IF Cacheable(p.req)
                   THEN ResponseCache_set(c, cacheKey, response, t) ELSE c,
         call  |-> [p EXCEPT !.pc = "done",
                      !.storedKey = IF Cacheable(p.req) THEN Text(cacheKey)
                                                        ELSE Null,
                      !.res = Returned(response, "gemini", FALSE, TRUE)]]

\* Lines 869-880: the secondary adapter's promise resolved after a failover.
ApiService_call_failoverOk(p, response, c, t) ==
    LET cacheKey == KeyOf[p.req.systemPrompt, p.req.userPrompt, p.req.model]
    IN  [cache |-> IF Cacheable(p.req)
                   THEN ResponseCache_set(c, cacheKey, response, t) ELSE c,
         call  |-> [p EXCEPT !.pc = "done",
                      !.storedKey = IF Cacheable(p.req) THEN Text(cacheKey)
                                                        ELSE Null,
                      !.res = Returned(response, "gemini", FALSE, TRUE)]]

\* Variant of the double failure path that reports the secondary error only.
ApiService_call_failoverFail_dropPrimary(p, geminiError) ==
    [p EXCEPT !.pc = "done",
        !.res = Thrown(Error(StrBothFailed \o StrCommaGemini
                               \o geminiError.message,
                             "ApiService.call"))]

\* Lines 881-883: the secondary adapter's promise rejected after a failover.
ApiService_call_failoverFail(p, geminiError) ==
    [p EXCEPT !.pc = "done",
        !.res = Thrown(Error(StrBothFailed \o p.cerebrasError.message
                               \o StrCommaGemini \o geminiError.message,
                             "ApiService.call"))]

\* Variant of the secondary-only success path that does not cache.
ApiService_call_geminiOnlyOk_noStore(p, response, c, t) ==
    [cache |-> c,
     call  |-> [p EXCEPT !.pc = "done",
                  !.res = Returned(response, "gemini", FALSE, FALSE)]]

\* Lines 899-909: the secondary adapter's promise resolved, no primary key.
ApiService_call_geminiOnlyOk(p, response, c, t) ==
    LET cacheKey == KeyOf[p.req.systemPrompt, p.req.userPrompt, StrGemini]
    IN  [cache |-> IF Cacheable(p.req)
                   THEN ResponseCache_set(c, cacheKey, response, t) ELSE c,
         call  |-> [p EXCEPT !.pc = "done",
                      !.storedKey = IF Cacheable(p.req) THEN Text(cacheKey)
                                                        ELSE Null,
                      !.res = Returned(response, "gemini", FALSE, FALSE)]]

\* Lines 892-897: the awaited secondary call rejected; the error propagates.
ApiService_call_geminiOnlyFail(p, e) ==
    [p EXCEPT !.pc = "done", !.res = Thrown(e)]

-----------------------------------------------------------------------------
(* Spec: calls to ApiService.call, one at a time, with the clock running   *)
(* and cache.clear() possible at every await.                              *)

Init ==
    /\ cache = << >>
    /\ now = 0
    /\ op = NoOp
    /\ calls = [c \in Procs |-> IdleCall]
    /\ session = NoSession

CallStart(c, req) ==
    /\ calls[c].pc \in {"idle", "done"}
    /\ LET r == ApiService_call_start(calls[c], req, cache, now)
       IN  /\ cache' = r.cache
           /\ calls' = [calls EXCEPT ![c] = r.call]
    /\ UNCHANGED <<now, op, session>>

CerebrasResolve(c, response) ==
    /\ calls[c].pc = "awaitCerebras"
    /\ LET r == ApiService_call_cerebrasOk(calls[c], response, cache, now)
       IN  /\ cache' = r.cache
           /\ calls' = [calls EXCEPT ![c] = r.call]
    /\ UNCHANGED <<now, op, session>>

CerebrasReject(c, e) ==
    /\ calls[c].pc = "awaitCerebras"
    /\ calls' = [calls EXCEPT ![c] = ApiService_call_cerebrasFail(calls[c], e)]
    /\ UNCHANGED <<cache, now, op, session>>

FailoverResolve(c, response) ==
    /\ calls[c].pc = "awaitGeminiFailover"
    /\ LET r == ApiService_call_failoverOk(calls[c], response, cache, now)
       IN  /\ cache' = r.cache
           /\ calls' = [calls EXCEPT ![c] = r.call]
    /\ UNCHANGED <<now, op, session>>

FailoverReject(c, e) ==
    /\ calls[c].pc = "awaitGeminiFailover"
    /\ calls' = [calls EXCEPT ![c] = ApiService_call_failoverFail(calls[c], e)]
    /\ UNCHANGED <<cache, now, op, session>>

GeminiOnlyResolve(c, response) ==
    /\ calls[c].pc = "awaitGeminiOnly"
    /\ LET r == ApiService_call_geminiOnlyOk(calls[c], response, cache, now)
       IN  /\ cache' = r.cache
           /\ calls' = [calls EXCEPT ![c] = r.call]
    /\ UNCHANGED <<now, op, session>>

GeminiOnlyReject(c, e) ==
    /\ calls[c].pc = "awaitGeminiOnly"
    /\ calls' = [calls EXCEPT ![c] = ApiService_call_geminiOnlyFail(calls[c], e)]
    /\ UNCHANGED <<cache, now, op, session>>

\* ApiService.cache.clear(), called by the application between steps.
ClearCache ==
    /\ cache # << >>
    /\ cache' = ResponseCache_clear(cache)
    /\ UNCHANGED <<now, op, calls, session>>

Next ==
    \/ \E c \in Procs, req \in Requests : CallStart(c, req)
    \/ \E c \in Procs, r \in Responses : CerebrasResolve(c, r)
    \/ \E c \in Procs, e \in CerebrasErrors : CerebrasReject(c, e)
    \/ \E c \in Procs, r \in Responses : FailoverResolve(c, r)
    \/ \E c \in Procs, e \in GeminiErrors : FailoverReject(c, e)
    \/ \E c \in Procs, r \in Responses : GeminiOnlyResolve(c, r)
    \/ \E c \in Procs, e \in GeminiErrors : GeminiOnlyReject(c, e)
    \/ ClearCache
    \/ Tick

Spec == Init /\ [][Next]_vars

-----------------------------------------------------------------------------
(* Claims about ApiService.call, checked under Spec.                       *)

\* C1 (as claimed): a cacheable call that repeats the previous call's model,
\* systemPrompt and userPrompt, while the entry that call stored is still in
\* the cache and younger than the TTL, returns at once with cached = TRUE and
\* provider = "cache", and invokes no adapter.
C1_RepeatWithinTtlIsCacheHit ==
    \A c \in Procs :
        (calls[c].repeatsLive /\ Cacheable(calls[c].req)) =>
            /\ calls[c].pc = "done"
            /\ calls[c].res.kind = "return"
            /\ calls[c].res.cached
            /\ calls[c].res.provider = "cache"
            /\ calls[c].nCerebras = 0
            /\ calls[c].nGemini = 0

\* C2: when the secondary adapter resolves with text r after the primary
\* adapter failed, the call returns r with provider = "gemini" (the
\* secondary) and failover = TRUE, and a cacheable call has then stored r,
\* stamped with the current clock, under the key it looked up at its start.
C2_FailoverSuccess ==
    [][\A c \in Procs, r \in Responses :
        (FailoverResolve(c, r) /\ calls[c].cerebrasError \in CerebrasErrors) =>
            /\ calls'[c].pc = "done"
            /\ calls'[c].res = Returned(r, "gemini", FALSE, TRUE)
            /\ Cacheable(calls[c].req) =>
                /\ ~calls[c].lookupKey.isNull
                /\ calls'[c].storedKey = calls[c].lookupKey
                /\ MapHas(cache', calls[c].lookupKey.text)
                /\ MapGet(cache', calls[c].lookupKey.text)
                       = [response |-> r, timestamp |-> now]
                /\ calls[c].lookupKey.text
                       = generateKey(calls[c].req.systemPrompt,
                                     calls[c].req.userPrompt,
                                     calls[c].req.model)]_vars

\* C2 witness: a cacheable call finished by failover and its text is in the
\* cache under the key it looked up.
C2_Witness ==
    \E c \in Procs :
        /\ calls[c].pc = "done"
        /\ calls[c].res.kind = "return"
        /\ calls[c].res.failover
        /\ calls[c].res.provider = "gemini"
        /\ calls[c].res.response = Str4
        /\ Cacheable(calls[c].req)
        /\ calls[c].req.apiKeys = [cerebras |-> TRUE, gemini |-> TRUE]
        /\ MapHas(cache, calls[c].lookupKey.text)
        /\ MapGet(cache, calls[c].lookupKey.text).response = Str4

\* C3: when the secondary adapter rejects with error e after the primary
\* adapter rejected, the call throws one error, created by the call itself,
\* whose message contains the primary error's message and e's message.
C3_BothFail ==
    [][\A c \in Procs, e \in GeminiErrors :
        (FailoverReject(c, e) /\ calls[c].cerebrasError \in CerebrasErrors) =>
            /\ calls'[c].pc = "done"
            /\ calls'[c].res.kind = "throw"
            /\ calls'[c].res.error.thrownBy = "ApiService.call"
            /\ Includes(calls'[c].res.error.message,
                        calls[c].cerebrasError.message)
            /\ Includes(calls'[c].res.error.message, e.message)]_vars

\* C3 witness: a call with both keys has thrown after both adapters were
\* invoked once.
C3_Witness ==
    \E c \in Procs :
        /\ calls[c].pc = "done"
        /\ calls[c].res.kind = "throw"
        /\ calls[c].req.apiKeys = [cerebras |-> TRUE, gemini |-> TRUE]
        /\ calls[c].nCerebras = 1
        /\ calls[c].nGemini = 1
        /\ Includes(calls[c].res.error.message, StrC1)
        /\ Includes(calls[c].res.error.message, StrG1)

\* C4: with a primary key and no secondary key, when the primary adapter
\* rejects with error e the call throws e itself, and the secondary adapter
\* has not been invoked.
C4_PrimaryOnlyFail ==
    [][\A c \in Procs, e \in CerebrasErrors :
        (CerebrasReject(c, e) /\ ~calls[c].req.apiKeys.gemini) =>
            /\ calls'[c].pc = "done"
            /\ calls'[c].res = Thrown(e)
            /\ calls'[c].nGemini = 0
            /\ calls'[c].nCerebras = 1]_vars

\* C4 witness: a primary-only call has thrown the adapter's own error.
C4_Witness ==
    \E c \in Procs :
        /\ calls[c].pc = "done"
        /\ calls[c].req.apiKeys = [cerebras |-> TRUE, gemini |-> FALSE]
        /\ calls[c].res.kind = "throw"
        /\ calls[c].res.error \in CerebrasErrors
        /\ calls[c].nGemini = 0

\* The configuration error of line 912.
ConfigError == Error(StrNoKeys, "ApiService.call")

HasNoKeys(req) == ~req.apiKeys.cerebras /\ ~req.apiKeys.gemini

\* C5 (as claimed): a call with neither key rejects with the configuration
\* error and invokes no adapter, in every cache state.
C5_NoKeysAlwaysRejects ==
    \A c \in Procs :
        (calls[c].pc # "idle" /\ HasNoKeys(calls[c].req)) =>
            /\ calls[c].pc = "done"
            /\ calls[c].res = Thrown(ConfigError)
            /\ calls[c].nCerebras = 0
            /\ calls[c].nGemini = 0

\* C5 (amended): a call with neither key never invokes an adapter; it
\* rejects with the configuration error unless it is cacheable and
\* ResponseCache.get returns a non-empty text for its key, and then it
\* returns that text with provider = "cache" and cached = TRUE.
C5_NoKeysRejectsOnMiss ==
    [][\A c \in Procs :
        LET req == calls'[c].req
            got == IF req \in Requests
                   THEN ResponseCache_get(cache,
                            KeyOf[req.systemPrompt, req.userPrompt, req.model],
                            now).ret
                   ELSE Null
        IN  (HasNoKeys(req) /\ req \in Requests /\ CallStart(c, req)) =>
                /\ calls'[c].pc = "done"
                /\ calls'[c].nCerebras = 0
                /\ calls'[c].nGemini = 0
                /\ calls'[c].res =
                     IF Cacheable(req) /\ ~got.isNull /\ got.text # StrEmpty
                     THEN Returned(got.text, "cache", TRUE, FALSE)
                     ELSE Thrown(ConfigError)]_vars

\* C5 witness: a call with neither key looked its key up, missed, and threw
\* the configuration error while the cache held other entries.
C5_Witness ==
    \E c \in Procs :
        /\ calls[c].pc = "done"
        /\ HasNoKeys(calls[c].req)
        /\ Cacheable(calls[c].req)
        /\ calls[c].res = Thrown(ConfigError)
        /\ cache # << >>
        /\ calls[c].nCerebras = 0
        /\ calls[c].nGemini = 0

\* C17 (as claimed): a cacheable call started while the cache holds, under
\* the key of its systemPrompt, userPrompt and model, an entry younger than
\* the TTL returns at once the text of that entry, whatever it is, with
\* provider = "cache", cached = TRUE and failover not TRUE, and invokes no
\* adapter.
C17_LiveEntryIsReturned ==
    [][\A c \in Procs :
        LET req == calls'[c].req
            key == IF req \in Requests
                   THEN KeyOf[req.systemPrompt, req.userPrompt, req.model]
                   ELSE StrEmpty
        IN  (/\ req \in Requests
             /\ CallStart(c, req)
             /\ Cacheable(req)
             /\ MapHas(cache, key)
             /\ now - MapGet(cache, key).timestamp < ttlMs) =>
                /\ calls'[c].pc = "done"
                /\ calls'[c].res
                     = Returned(MapGet(cache, key).response, "cache", TRUE, FALSE)
                /\ calls'[c].nCerebras = 0
                /\ calls'[c].nGemini = 0]_vars

\* C18: in every result a call has returned, failover is TRUE exactly when
\* the response came from the secondary adapter, invoked after the primary
\* adapter's call had failed in that same call; it is not TRUE for a cache
\* hit, for a primary success, or for a call without a primary key.
C18_FailoverFlag ==
    \A c \in Procs :
        (calls[c].pc = "done" /\ calls[c].res.kind = "return") =>
            /\ calls[c].res.failover <=>
                  /\ calls[c].res.provider = "gemini"
                  /\ calls[c].cerebrasError \in CerebrasErrors
                  /\ calls[c].nCerebras = 1
                  /\ calls[c].nGemini = 1
            /\ calls[c].res.provider \in {"cache", "cerebras"} =>
                  ~calls[c].res.failover
            /\ ~calls[c].req.apiKeys.cerebras => ~calls[c].res.failover

\* C18 witness: a call that does not use the cache returned the secondary
\* adapter's text, flagged as a failover, after the primary adapter failed.
C18_Witness ==
    \E c \in Procs :
        /\ calls[c].pc = "done"
        /\ calls[c].res = Returned(Str4, "gemini", FALSE, TRUE)
        /\ ~calls[c].req.useCache
        /\ calls[c].cerebrasError = Error(StrC1, "Cerebras.call")

\* C19: a call with a secondary key and no primary key that misses the
\* cache (it is not cacheable, or ResponseCache.get returns null) invokes
\* the secondary adapter once and not the primary; when the adapter resolves
\* with r the call returns r with provider = "gemini", cached = FALSE and
\* failover not TRUE, and a cacheable call has stored r stamped with the
\* current clock while any other call leaves the cache alone; when the
\* adapter rejects with e the call throws e itself.
C19_SecondaryOnly ==
    [][\A c \in Procs :
        LET req == calls'[c].req
            got == IF req \in Requests
                   THEN ResponseCache_get(cache,
                            KeyOf[req.systemPrompt, req.userPrompt, req.model],
                            now).ret
                   ELSE Null
        IN  /\ (/\ req \in Requests
                /\ CallStart(c, req)
                /\ req.apiKeys = [cerebras |-> FALSE, gemini |-> TRUE]
                /\ Cacheable(req) => got.isNull) =>
                   /\ calls'[c].pc = "awaitGeminiOnly"
                   /\ calls'[c].nGemini = 1
                   /\ calls'[c].nCerebras = 0
            /\ \A r \in Responses :
                  GeminiOnlyResolve(c, r) =>
                     /\ calls[c].req.apiKeys = [cerebras |-> FALSE, gemini |-> TRUE]
                     /\ calls'[c].pc = "done"
                     /\ calls'[c].res = Returned(r, "gemini", FALSE, FALSE)
                     /\ calls'[c].nGemini = 1
                     /\ calls'[c].nCerebras = 0
                     /\ IF Cacheable(calls[c].req)
                        THEN /\ ~calls'[c].storedKey.isNull
                             /\ MapHas(cache', calls'[c].storedKey.text)
                             /\ MapGet(cache', calls'[c].storedKey.text)
                                  = [response |-> r, timestamp |-> now]
                        ELSE cache' = cache
            /\ \A e \in GeminiErrors :
                  GeminiOnlyReject(c, e) =>
                     /\ calls'[c].pc = "done"
                     /\ calls'[c].res = Thrown(e)
                     /\ calls'[c].nGemini = 1
                     /\ calls'[c].nCerebras = 0]_vars

\* C19 witness: a cacheable call with only a secondary key returned the
\* secondary adapter's text, not as a failover, and the text is in the cache.
C19_Witness ==
    \E c \in Procs :
        /\ calls[c].pc = "done"
        /\ calls[c].req.apiKeys = [cerebras |-> FALSE, gemini |-> TRUE]
        /\ Cacheable(calls[c].req)
        /\ calls[c].res = Returned(Str4, "gemini", FALSE, FALSE)
        /\ calls[c].nGemini = 1
        /\ calls[c].nCerebras = 0
        /\ ~calls[c].storedKey.isNull
        /\ MapHas(cache, calls[c].storedKey.text)
        /\ MapGet(cache, calls[c].storedKey.text).response = Str4

\* C20: a call with a primary key that misses the cache (it is not
\* cacheable, or ResponseCache.get returns null) invokes the primary adapter
\* first and nothing else; when the primary adapter resolves with r the call
\* returns r with provider = "cerebras" and cached = FALSE and the secondary
\* adapter has not been invoked; and in a call with a primary key the
\* secondary adapter has been invoked only if the primary adapter was
\* invoked and failed in that call.
C20_PrimaryFirst ==
    [][\A c \in Procs :
        LET req == calls'[c].req
            got == IF req \in Requests
                   THEN ResponseCache_get(cache,
                            KeyOf[req.systemPrompt, req.userPrompt, req.model],
                            now).ret
                   ELSE Null
        IN  /\ (/\ req \in Requests
                /\ CallStart(c, req)
                /\ req.apiKeys.cerebras
                /\ Cacheable(req) => got.isNull) =>
                   /\ calls'[c].pc = "awaitCerebras"
                   /\ calls'[c].nCerebras = 1
                   /\ calls'[c].nGemini = 0
            /\ \A r \in Responses :
                  CerebrasResolve(c, r) =>
                     /\ calls'[c].pc = "done"
                     /\ calls'[c].res.kind = "return"
                     /\ calls'[c].res.response = r
                     /\ calls'[c].res.provider = "cerebras"
                     /\ ~calls'[c].res.cached
                     /\ calls'[c].nCerebras = 1
                     /\ calls'[c].nGemini = 0
            /\ (calls'[c].req.apiKeys.cerebras /\ calls'[c].nGemini > 0) =>
                  /\ calls'[c].nCerebras = 1
                  /\ calls'[c].nGemini = 1
                  /\ calls'[c].cerebrasError \in CerebrasErrors]_vars

\* C20 witness: a call with both keys returned the primary adapter's text
\* and the secondary adapter was not invoked.
C20_Witness ==
    \E c \in Procs :
        /\ calls[c].pc = "done"
        /\ calls[c].req.apiKeys = [cerebras |-> TRUE, gemini |-> TRUE]
        /\ calls[c].res.kind = "return"
        /\ calls[c].res.provider = "cerebras"
        /\ calls[c].res.response = Str4
        /\ ~calls[c].res.cached
        /\ calls[c].nCerebras = 1
        /\ calls[c].nGemini = 0

\* C27 (as claimed): whenever a call has written the cache, the key it wrote
\* is the key its cache check looked up at the start.
C27_WritesLookedUpKey ==
    \A c \in Procs :
        ~calls[c].storedKey.isNull =>
            /\ ~calls[c].lookupKey.isNull
            /\ calls[c].storedKey = calls[c].lookupKey

\* C29: every step of a call made with useCache false or stream true leaves
\* the cache as it was, in every branch, and the call neither looks a key up
\* nor stores one nor returns from the cache.
C29_UncachedCallLeavesCache ==
    [][\A c \in Procs :
        (calls'[c] # calls[c] /\ ~Cacheable(calls'[c].req)) =>
            /\ cache' = cache
            /\ calls'[c].lookupKey.isNull
            /\ calls'[c].storedKey.isNull
            /\ calls'[c].res.provider # "cache"]_vars

\* A call made with useCache false or stream true has returned a provider's
\* response while the cache holds an entry.
C29_Witness ==
    \E c \in Procs :
        /\ calls[c].pc = "done"
        /\ ~Cacheable(calls[c].req)
        /\ calls[c].res.kind = "return"
        /\ calls[c].res.provider \in {"cerebras", "gemini"}
        /\ cache # << >>

\* C30: a start of a call changes the cache at most by removing the expired
\* entry of the key it looks up; a step in which a provider's promise rejects
\* leaves the cache as it was; and a call that has thrown has stored no key.
C30_RejectLeavesCache ==
    [][\A c \in Procs :
        calls'[c] # calls[c] =>
            /\ calls[c].pc \in {"idle", "done"} =>
                  \/ cache' = cache
                  \/ /\ ~calls'[c].lookupKey.isNull
                     /\ MapHas(cache, calls'[c].lookupKey.text)
                     /\ now - MapGet(cache, calls'[c].lookupKey.text).timestamp
                          >= ttlMs
                     /\ cache' = MapDelete(cache, calls'[c].lookupKey.text)
            /\ (calls'[c].pc = "done" /\ calls'[c].res.kind = "throw") =>
                  /\ calls'[c].storedKey.isNull
                  /\ calls[c].pc \notin {"idle", "done"} => cache' = cache
            /\ calls'[c].pc = "awaitGeminiFailover" => cache' = cache]_vars

\* A cacheable call has thrown the combined failover error while the cache
\* holds an entry.
C30_Witness ==
    \E c \in Procs :
        /\ calls[c].pc = "done"
        /\ calls[c].res.kind = "throw"
        /\ Cacheable(calls[c].req)
        /\ calls[c].nCerebras = 1
        /\ calls[c].nGemini = 1
        /\ cache # << >>

\* C32 (as claimed): a cacheable call that follows a call which stored a
\* provider's response for the same model, systemPrompt and userPrompt under
\* other apiKeys, with that entry still in the cache and younger than the
\* TTL, is served that response from the cache, whatever keys it presents.
C32_ServedAcrossKeys ==
    [][\A c \in Procs :
        LET req == calls'[c].req
        IN  (/\ req \in Requests
             /\ CallStart(c, req)
             /\ Cacheable(req)
             /\ RepeatsLive(calls[c], req, cache, now)
             /\ calls[c].req.apiKeys # req.apiKeys) =>
                /\ calls'[c].pc = "done"
                /\ calls'[c].res
                     = Returned(calls[c].res.response, "cache", TRUE, FALSE)]_vars

-----------------------------------------------------------------------------
(* Claims about ResponseCache, checked under SpecCache.                    *)

\* The entry set(key, response) writes at clock t.
Entry(key, response, t) ==
    [key |-> key, value |-> [response |-> response, timestamp |-> t]]

\* C6: the cache never holds more than maxSize entries.
C6_SizeBound == Len(cache) <= maxSize

\* C6 witness: a set ran on a full cache and the cache is full afterwards.
C6_Witness ==
    /\ op.name = "set"
    /\ Len(op.pre) = maxSize
    /\ Len(cache) = maxSize

C8_OverwriteEvictsNothing ==
    (op.name = "set" /\ MapHas(op.pre, op.key)) =>
        /\ MapKeys(cache) = MapKeys(op.pre)
        /\ Len(cache) = Len(op.pre)
        /\ MapGet(cache, op.key) = [response |-> op.response, timestamp |-> op.at]
        /\ \A k \in MapKeys(op.pre) \ {op.key} :
               MapHas(cache, k) /\ MapGet(cache, k) = MapGet(op.pre, k)

\* C9 (as claimed): get on an entry whose age is at least the TTL, the age
\* equal to the TTL included, returns null.
C9_ExpiredAtTtl ==
    (/\ op.name = "get"
     /\ MapHas(op.pre, op.key)
     /\ op.at - MapGet(op.pre, op.key).timestamp >= ttlMs) => op.ret.isNull

\* C21 (as claimed): get changes no entry's timestamp or text; on a key
\* that is absent it leaves the cache unchanged and returns null; on a key
\* that is present and unexpired (now - insertedAt < ttl) it leaves the cache
\* unchanged; on a key that is present and expired (now - insertedAt >= ttl)
\* it removes exactly that entry and returns null.
C21_GetFrame ==
    op.name = "get" =>
        /\ \A i \in 1..Len(cache) :
              /\ MapHas(op.pre, cache[i].key)
              /\ MapGet(op.pre, cache[i].key) = cache[i].value
        /\ IF ~MapHas(op.pre, op.key)
           THEN cache = op.pre /\ op.ret.isNull
           ELSE IF op.at - MapGet(op.pre, op.key).timestamp < ttlMs
           THEN cache = op.pre
           ELSE cache = MapDelete(op.pre, op.key) /\ op.ret.isNull

\* C22: eviction is by insertion order and reads do not change it.  A get
\* that hits leaves the cache, order included, unchanged; any get leaves the
\* remaining entries in their order, so that the key evicted next changes
\* only when that key itself has expired and is removed; and a set on a full
\* cache removes the first key in insertion order, however often it was read.
C22_ReadsDoNotReorder ==
    [][/\ \A k \in CacheKeys :
            CacheGet(k) =>
               /\ ~op'.ret.isNull => cache' = cache
               /\ cache' \in {cache, MapDelete(cache, k)}
               /\ (cache # << >> /\ k # MapFirstKey(cache)) =>
                     (cache' # << >> /\ MapFirstKey(cache') = MapFirstKey(cache))
       /\ \A k \in CacheKeys, r \in Texts :
            (CacheSet(k, r) /\ Len(cache) >= maxSize) =>
               cache' = MapSet(Tail(cache), k,
                               [response |-> r, timestamp |-> now])]_vars

\* C22 witness: a get hit the oldest key of a full cache and the cache still
\* has that key first.
C22_Witness ==
    /\ op.name = "get"
    /\ ~op.ret.isNull
    /\ Len(op.pre) = maxSize
    /\ op.key = MapFirstKey(op.pre)
    /\ cache # << >>
    /\ MapFirstKey(cache) = op.key

\* C23: clear leaves the cache empty and changes nothing else; on an empty
\* cache get returns null for every key; and an empty cache gets its next
\* entry from set only.
C23_ClearEmpties ==
    [][/\ CacheClear =>
            /\ cache' = << >>
            /\ Len(cache') = 0
            /\ <<now', calls', session'>> = <<now, calls, session>>
            /\ \A k \in CacheKeys : ResponseCache_get(cache', k, now').ret.isNull
       /\ cache = << >> =>
            /\ \A k \in CacheKeys :
                  /\ ResponseCache_get(cache, k, now).ret.isNull
                  /\ CacheGet(k) => (op'.ret.isNull /\ cache' = << >>)
            /\ cache' # << >> => op'.name = "set"]_vars

\* C23 witness: clear ran on a full cache and the cache is empty.
C23_Witness ==
    /\ op.name = "clear"
    /\ Len(op.pre) = maxSize
    /\ cache = << >>

-----------------------------------------------------------------------------
(* SpecKey: ResponseCache.generateKey applied to two requests.             *)

\* System prompts of 199 to 201 characters: 199 times "a", followed by
\* nothing, by one character, or by one character and a 201st.
Base199 == [i \in 1..199 |-> 97]
KeySysPrompts ==
    {Base199 \o tail : tail \in {<< >>, <<120>>, <<121>>, <<120, 112>>,
                                 <<120, 113>>, <<121, 112>>}}
KeyInputs ==
    [systemPrompt : KeySysPrompts, userPrompt : UserPrompts,
     model : Models \cup {StrGemini}]

InitKey ==
    /\ cache = << >>
    /\ now = 0
    /\ op \in [name : {"inputs"}, a : KeyInputs, b : KeyInputs,
               keyA : {Null}, keyB : {Null}]
    /\ calls = << >>
    /\ session = NoSession

\* generateKey is called for both requests.
GenerateKeys ==
    /\ op.name = "inputs"
    /\ op' = [op EXCEPT
                !.name = "keys",
                !.keyA = Text(generateKey(op.a.systemPrompt, op.a.userPrompt,
                                          op.a.model)),
                !.keyB = Text(generateKey(op.b.systemPrompt, op.b.userPrompt,
                                          op.b.model))]
    /\ UNCHANGED <<cache, now, calls, session>>

SpecKey == InitKey /\ [][GenerateKeys]_vars

\* C24: two requests with equal model and userPrompt whose systemPrompts
\* agree on their first 200 characters get the same key, whatever follows
\* the 200th character; in particular equal requests get equal keys.
C24_KeyIgnoresTail ==
    (/\ op.name = "keys"
     /\ op.a.model = op.b.model
     /\ op.a.userPrompt = op.b.userPrompt
     /\ Slice0(op.a.systemPrompt, 200) = Slice0(op.b.systemPrompt, 200)) =>
        op.keyA = op.keyB

\* C24 witness: two systemPrompts of 201 characters that differ in the
\* 201st only got the same key.
C24_Witness ==
    /\ op.name = "keys"
    /\ op.a.model = op.b.model
    /\ op.a.userPrompt = op.b.userPrompt
    /\ Len(op.a.systemPrompt) = 201
    /\ Len(op.b.systemPrompt) = 201
    /\ op.a.systemPrompt # op.b.systemPrompt
    /\ op.keyA = op.keyB

-----------------------------------------------------------------------------
(* SpecConc: two invocations of ApiService.call that interleave at their   *)
(* adapter awaits, with adapters that succeed.                             *)

ConcProcs == {1, 2}
\* Cacheable requests with one key each, so that both single-provider
\* branches, and with them all four cache keys, occur.
ConcRequests ==
    {r \in Requests :
        /\ Cacheable(r)
        /\ r.apiKeys \in {[cerebras |-> TRUE, gemini |-> FALSE],
                          [cerebras |-> FALSE, gemini |-> TRUE]}}

\* The clock stands one tick past the TTL and the cache is empty or holds one
\* entry stored at clock 0, which has expired.
InitConc ==
    /\ cache \in {<< >>, <<[key |-> KeyOf[StrS, Str2p2, StrM1],
                           value |-> [response |-> Str4, timestamp |-> 0]]>>}
    /\ now = MaxTime
    /\ op = NoOp
    /\ calls = [c \in ConcProcs |-> IdleCall]
    /\ session = NoSession

NextConc ==
    \/ \E c \in ConcProcs, req \in ConcRequests : CallStart(c, req)
    \/ \E c \in ConcProcs, r \in Responses : CerebrasResolve(c, r)
    \/ \E c \in ConcProcs, r \in Responses : GeminiOnlyResolve(c, r)

SpecConc == InitConc /\ [][NextConc]_vars

\* C25: with two calls interleaving at their awaits, in every reachable
\* state the cache holds at most maxSize entries and at most one entry per
\* key.  (Each get and each set is one step of the call that makes it: the
\* code has no await between the check and the delete of get, nor between
\* the eviction and the insertion of set.)
C25_CacheNeverCorrupted ==
    /\ Len(cache) <= maxSize
    /\ \A i, j \in 1..Len(cache) : cache[i].key = cache[j].key => i = j
    /\ \A i \in 1..Len(cache) : cache[i].value.timestamp <= now

\* C25 witness: a call is suspended at its adapter await while the cache is
\* full and holds, under the key that call looked up and missed, a text
\* stored by the other call in the meantime.
C25_Witness ==
    \E c \in ConcProcs :
        /\ calls[c].pc = "awaitCerebras"
        /\ Len(cache) = maxSize
        /\ MapHas(cache, calls[c].lookupKey.text)
        /\ MapGet(cache, calls[c].lookupKey.text).response = Str4

\* C26: there is no in-flight de-duplication.  A call started while the
\* other call is suspended at its adapter await for the same request, with
\* no entry yet in the cache for its key, misses too and invokes an adapter
\* of its own; and when a call resolves after the other call stored its
\* response for the same request, the cache holds one entry for the key,
\* with the response and clock of the call that resolved last.
C26_NoDeduplication ==
    [][\A c, d \in ConcProcs :
        c # d =>
            /\ (/\ calls[d].pc \in {"awaitCerebras", "awaitGeminiOnly"}
                /\ calls'[c].req = calls[d].req
                /\ CallStart(c, calls[d].req)
                /\ ~MapHas(cache, calls'[c].lookupKey.text)) =>
                   /\ calls'[c].pc = calls[d].pc
                   /\ calls'[c].nCerebras + calls'[c].nGemini = 1
                   /\ calls'[d] = calls[d]
                   /\ calls'[d].nCerebras + calls'[d].nGemini = 1
            /\ \A r \in Responses :
                  (/\ CerebrasResolve(c, r) \/ GeminiOnlyResolve(c, r)
                   /\ calls[d].pc = "done"
                   /\ calls[d].req = calls[c].req
                   /\ ~calls[d].storedKey.isNull) =>
                      /\ calls'[c].storedKey = calls[d].storedKey
                      /\ Cardinality({i \in 1..Len(cache') :
                            cache'[i].key = calls'[c].storedKey.text}) = 1
                      /\ MapGet(cache', calls'[c].storedKey.text)
                           = [response |-> r, timestamp |-> now]]_vars

\* C26 witness: both calls, for the same request, were answered by the
\* primary adapter, one with "4" and one with "", and the cache holds one
\* entry for the key, with the "" of the call that resolved last.
C26_Witness ==
    /\ calls[1].pc = "done"
    /\ calls[2].pc = "done"
    /\ calls[1].req = calls[2].req
    /\ calls[1].res = Returned(Str4, "cerebras", FALSE, FALSE)
    /\ calls[2].res = Returned(StrEmpty, "cerebras", FALSE, FALSE)
    /\ calls[1].storedKey = calls[2].storedKey
    /\ Len(cache) = 1
    /\ MapHas(cache, calls[2].storedKey.text)
    /\ MapGet(cache, calls[2].storedKey.text).response = StrEmpty

-----------------------------------------------------------------------------
(* SpecShare: cacheable calls, one at a time, for requests whose hashed    *)
(* strings coincide.                                                       *)

ShareRequests ==
    [systemPrompt : ShareSysPrompts, userPrompt : ShareUserPrompts,
     model : Models,
     apiKeys : {[cerebras |-> TRUE, gemini |-> FALSE],
                [cerebras |-> FALSE, gemini |-> TRUE]},
     useCache : {TRUE}, stream : {FALSE}]

NextShare ==
    \/ \E c \in Procs, req \in ShareRequests : CallStart(c, req)
    \/ \E c \in Procs, r \in Responses : CerebrasResolve(c, r)
    \/ \E c \in Procs, r \in Responses : GeminiOnlyResolve(c, r)

SpecShare == Init /\ [][NextShare]_vars

\* C28 (as claimed): a call that returns from the cache the entry the call
\* before it stored has the same model, the same first 200 characters of
\* systemPrompt and the same userPrompt as that call.
C28_NoSharedEntry ==
    [][\A c \in Procs :
        (/\ calls[c].pc = "done"
         /\ ~calls[c].storedKey.isNull
         /\ calls'[c] # calls[c]
         /\ calls'[c].res.provider = "cache"
         /\ calls'[c].lookupKey = calls[c].storedKey) =>
            /\ calls'[c].req.model = calls[c].req.model
            /\ Slice0(calls'[c].req.systemPrompt, 200)
                 = Slice0(calls[c].req.systemPrompt, 200)
            /\ calls'[c].req.userPrompt = calls[c].req.userPrompt]_vars

-----------------------------------------------------------------------------
(* SpecClear: calls to ApiService.call, one at a time, with cache.clear()  *)
(* run by the application while a call awaits an adapter.  op.name records *)
(* that clear() ran since the current call was issued.                     *)

InFlight(p) ==
    p.pc \in {"awaitCerebras", "awaitGeminiFailover", "awaitGeminiOnly"}

\* Lines 807-842: call is invoked and runs to its first await or to its end.
IssueCall(c, req) ==
    /\ calls[c].pc \in {"idle", "done"}
    /\ LET r == ApiService_call_start(calls[c], req, cache, now)
       IN  /\ cache' = r.cache
           /\ calls' = [calls EXCEPT ![c] = r.call]
    /\ op' = NoOp
    /\ UNCHANGED <<now, session>>

\* Lines 786-789: clear(), run between two steps of a call in flight.
ClearInFlight ==
    /\ \E c \in Procs : InFlight(calls[c])
    /\ cache' = ResponseCache_clear(cache)
    /\ op' = [NoOp EXCEPT !.name = "clear", !.pre = cache, !.at = now]
    /\ UNCHANGED <<now, calls, session>>

NextClear ==
    \/ \E c \in Procs, req \in Requests : IssueCall(c, req)
    \/ ClearInFlight
    \/ \E c \in Procs, r \in Responses : CerebrasResolve(c, r)
    \/ \E c \in Procs, e \in CerebrasErrors : CerebrasReject(c, e)
    \/ \E c \in Procs, r \in Responses : FailoverResolve(c, r)
    \/ \E c \in Procs, r \in Responses : GeminiOnlyResolve(c, r)

SpecClear == Init /\ [][NextClear]_vars

\* C33 (as claimed): once clear() has run while a call was awaiting an
\* adapter, the cache holds no entry when that call has finished: the call
\* issued before the clear does not insert its response afterwards.
C33_NoInsertAfterClear ==
    \A c \in Procs :
        (op.name = "clear" /\ calls[c].pc = "done") => cache = << >>

-----------------------------------------------------------------------------
(* SpecSettle: calls to ApiService.call, one at a time, whose adapter      *)
(* invocations all settle: a pending adapter promise eventually resolves   *)
(* or rejects, and the continuation of the await then runs.                *)

\* An adapter promise awaited by call c settles and call resumes.
Settle(c) ==
    \/ \E r \in Responses : CerebrasResolve(c, r)
    \/ \E e \in CerebrasErrors : CerebrasReject(c, e)
    \/ \E r \in Responses : FailoverResolve(c, r)
    \/ \E e \in GeminiErrors : FailoverReject(c, e)
    \/ \E r \in Responses : GeminiOnlyResolve(c, r)
    \/ \E e \in GeminiErrors : GeminiOnlyReject(c, e)

NextSettle ==
    \/ \E c \in Procs, req \in Requests : CallStart(c, req)
    \/ \E c \in Procs : Settle(c)

SpecSettle ==
    Init /\ [][NextSettle]_vars /\ \A c \in Procs : WF_vars(Settle(c))

\* The adapter invocations call record p has made.
Invocations(p) == p.nCerebras + p.nGemini

\* C34: a call invokes the primary adapter at most once and the secondary
\* adapter at most once; every step in which an adapter invocation settles
\* either ends the call, by return or by throw, or makes the one further
\* invocation (the secondary after the primary failed); and a call whose
\* invocations all settle ends.
C34_AtMostTwoInvocations ==
    /\ [](\A c \in Procs : calls[c].nCerebras <= 1 /\ calls[c].nGemini <= 1)
    /\ [][\A c \in Procs :
            (InFlight(calls[c]) /\ calls'[c] # calls[c]) =>
                \/ /\ calls'[c].pc = "done"
                   /\ calls'[c].res.kind \in {"return", "throw"}
                   /\ Invocations(calls'[c]) = Invocations(calls[c])
                \/ /\ calls[c].pc = "awaitCerebras"
                   /\ calls'[c].pc = "awaitGeminiFailover"
                   /\ calls'[c].nCerebras = 1
                   /\ calls[c].nGemini = 0
                   /\ calls'[c].nGemini = 1]_vars
    /\ \A c \in Procs : InFlight(calls[c]) ~> (calls[c].pc = "done")

\* A call has ended after two adapter invocations, the primary and then the
\* secondary.
C34_Witness ==
    \E c \in Procs :
        /\ calls[c].pc = "done"
        /\ calls[c].nCerebras = 1
        /\ calls[c].nGemini = 1
        /\ calls[c].res.kind = "return"

-----------------------------------------------------------------------------
(* SpecTime: calls to ApiService.call, one at a time, with the clock       *)
(* running.  op holds what the call reads from performance.now(): the      *)
(* startTime of line 817, and at the exit the clock and what the returned  *)
(* object or the thrown error carries as responseTime.                     *)



\* What call record p hands to its caller at clock t, having started at
\* start: the returned objects carry responseTime: performance.now() -
\* startTime (lines 828, 854, 878, 908); the thrown errors (lines 882, 886,
\* 897, 912) carry no responseTime.
ExitOf(p, start, t) ==
    IF p.pc # "done"
    THEN [kind |-> "none", hasResponseTime |-> FALSE, responseTime |-> 0]
    ELSE IF p.res.kind = "return"
    THEN [kind |-> "return", hasResponseTime |-> TRUE,
          responseTime |-> t - start]
    ELSE [kind |-> "throw", hasResponseTime |-> FALSE, responseTime |-> 0]

Timing(start, p, t) ==
    [name |-> "timing", startTime |-> start, exitAt |-> t,
     exit |-> ExitOf(p, start, t)]

InitTime ==
    /\ cache = << >>
    /\ now = 0
    /\ op = Timing(0, IdleCall, 0)
    /\ calls = [c \in Procs |-> IdleCall]
    /\ session = NoSession

\* Lines 807-842: call is entered, reads startTime, and runs to its first
\* await or to its exit.
TimedStart(c, req) ==
    /\ calls[c].pc \in {"idle", "done"}
    /\ LET r == ApiService_call_start(calls[c], req, cache, now)
       IN  /\ cache' = r.cache
           /\ calls' = [calls EXCEPT ![c] = r.call]
           /\ op' = Timing(now, r.call, now)
    /\ UNCHANGED <<now, session>>

\* An awaited adapter promise resolves with response and call resumes.
TimedResolve(c, response) ==
    /\ InFlight(calls[c])
    /\ LET r == IF calls[c].pc = "awaitCerebras"
                THEN ApiService_call_cerebrasOk(calls[c], response, cache, now)
                ELSE IF calls[c].pc = "awaitGeminiFailover"
                THEN ApiService_call_failoverOk(calls[c], response, cache, now)
                ELSE ApiService_call_geminiOnlyOk(calls[c], response, cache, now)
       IN  /\ cache' = r.cache
           /\ calls' = [calls EXCEPT ![c] = r.call]
           /\ op' = Timing(op.startTime, r.call, now)
    /\ UNCHANGED <<now, session>>

\* An awaited adapter promise rejects with e and call resumes.
TimedReject(c, e) ==
    /\ InFlight(calls[c])
    /\ e.thrownBy = (IF calls[c].pc = "awaitCerebras" THEN "Cerebras.call"
                                                       ELSE "Gemini.call")
    /\ LET p == IF calls[c].pc = "awaitCerebras"
                THEN ApiService_call_cerebrasFail(calls[c], e)
                ELSE IF calls[c].pc = "awaitGeminiFailover"
                THEN ApiService_call_failoverFail(calls[c], e)
                ELSE ApiService_call_geminiOnlyFail(calls[c], e)
       IN  /\ calls' = [calls EXCEPT ![c] = p]
           /\ op' = Timing(op.startTime, p, now)
    /\ UNCHANGED <<cache, now, session>>

NextTime ==
    \/ \E c \in Procs,
          req \in {r \in Requests : r.userPrompt = Str2p2 /\ Cacheable(r)} :
          TimedStart(c, req)
    \/ \E c \in Procs, r \in Responses : TimedResolve(c, r)
    \/ \E c \in Procs, e \in CerebrasErrors \cup GeminiErrors : TimedReject(c, e)
    \/ Tick

SpecTime == InitTime /\ [][NextTime]_vars

\* C38 (as claimed): what a call hands to its caller at its exit, the
\* returned object or the thrown error, carries as response time the clock
\* at the exit minus the clock at the entry, and that value is not negative.
C38_EveryExitTimed ==
    op.exit.kind \in {"return", "throw"} =>
        /\ op.exit.hasResponseTime
        /\ op.exit.responseTime = op.exitAt - op.startTime
        /\ op.exit.responseTime >= 0

-----------------------------------------------------------------------------
(* SpecHash: the loop of ResponseCache.generateKey, one character per      *)
(* step.  op holds the arguments, the string str of line 741, the index i  *)
(* of the loop, the int32 value of hash and, at the end, the key returned. *)

\* The word <<hi, lo>> of an int32 value.
FromInt32(v) == <<(v \div 65536) % 65536, v % 65536>>

\* Variant of the loop body that shifts by four bits ("<< 4" for "<< 5").
HashStepShift_shl4(hash, c) ==
    LET h   == FromInt32(hash)
        sh  == <<(h[1] * 16 + (h[2] \div 4096)) % 65536, (h[2] * 16) % 65536>>
        lo  == sh[2] - h[2] + c
        hi  == sh[1] - h[1] + ((lo - (lo % 65536)) \div 65536)
    IN  ToInt32(<<hi % 65536, lo % 65536>>)

\* Lines 743-744 as written: hash = ((hash << 5) - hash) + c; hash |= 0.
\* The difference and the sum are exact in a JS number, and "| 0" keeps
\* their low 32 bits, so the halves are subtracted and added with a carry.
HashStepShift(hash, c) ==
    LET h   == FromInt32(hash)
        sh  == <<(h[1] * 32 + (h[2] \div 2048)) % 65536, (h[2] * 32) % 65536>>
        lo  == sh[2] - h[2] + c
        hi  == sh[1] - h[1] + ((lo - (lo % 65536)) \div 65536)
    IN  ToInt32(<<hi % 65536, lo % 65536>>)

HashInputs ==
    {[systemPrompt |-> StrS, userPrompt |-> Str2p2, model |-> StrM1],
     [systemPrompt |-> StrS, userPrompt |-> [i \in 1..7 |-> 65535], model |-> StrM1],
     [systemPrompt |-> StrEmpty, userPrompt |-> StrEmpty, model |-> StrEmpty],
     [systemPrompt |-> Base199 \o <<120, 112>>, userPrompt |-> StrHi,
      model |-> StrM1]}

InitHash ==
    /\ cache = << >>
    /\ now = 0
    /\ \E in \in HashInputs :
          op = [name |-> "hash", in |-> in,
                str |-> in.model \o StrColon
                          \o Slice0(in.systemPrompt, KeyPrefixLen)
                          \o StrColon \o in.userPrompt,
                i |-> 0, hash |-> 0, key |-> Null]
    /\ calls = << >>
    /\ session = NoSession

\* Lines 742-745: one round of the loop.
HashChar ==
    /\ op.name = "hash"
    /\ op.i < Len(op.str)
    /\ op' = [op EXCEPT !.i = @ + 1,
                        !.hash = HashStepShift(op.hash, op.str[op.i + 1])]
    /\ UNCHANGED <<cache, now, calls, session>>

\* Line 746: the loop has ended; return hash.toString(36).
HashReturn ==
    /\ op.name = "hash"
    /\ op.i = Len(op.str)
    /\ op' = [op EXCEPT !.name = "key", !.key = Text(ToString36(op.hash))]
    /\ UNCHANGED <<cache, now, calls, session>>

NextHash == HashChar \/ HashReturn

SpecHash == InitHash /\ [][NextHash]_vars

\* h * 31 + c wrapped to a signed 32-bit integer, for an int32 h.
Wrap31(h, c) == ToInt32(HashStep(FromInt32(h), c))

\* The integer a base-36 numeral denotes, digits 0-9 and a-z, with a
\* leading "-" for a negative one.
Digit36Value(ch) == IF ch <= 57 THEN ch - 48 ELSE ch - 87
RECURSIVE Base36Neg(_, _)
Base36Neg(s, n) ==
    IF n = 0 THEN 0 ELSE Base36Neg(s, n - 1) * 36 - Digit36Value(s[n])
Base36Value(s) ==
    IF s[1] = 45 THEN Base36Neg(Tail(s), Len(s) - 1)
                 ELSE -Base36Neg(s, Len(s))

\* C39: the string hashed is model ':' systemPrompt[0..200) ':' userPrompt;
\* hash starts at 0, every round of the loop replaces it by hash * 31 + the
\* character's code wrapped to a signed 32-bit integer, and it is within
\* [-2^31, 2^31 - 1] at every step; the key returned is the base-36 numeral
\* of the final hash, and is the key generateKey gives for the arguments.
C39_RollingHash ==
    /\ [](op.name \in {"hash", "key"} =>
            /\ op.str = op.in.model \o <<58>>
                          \o SubSeq(op.in.systemPrompt, 1,
                                    IF Len(op.in.systemPrompt) < 200
                                    THEN Len(op.in.systemPrompt) ELSE 200)
                          \o <<58>> \o op.in.userPrompt
            /\ op.i = 0 => op.hash = 0
            /\ op.hash >= -2147483647 - 1
            /\ op.hash <= 2147483647
            /\ op.name = "key" =>
                  /\ op.i = Len(op.str)
                  /\ Base36Value(op.key.text) = op.hash
                  /\ \A k \in 1..Len(op.key.text) :
                        \/ op.key.text[k] \in 48..57
                        \/ op.key.text[k] \in 97..122
                        \/ k = 1 /\ op.key.text[k] = 45
                  /\ op.key.text = generateKey(op.in.systemPrompt,
                                               op.in.userPrompt, op.in.model))
    /\ [][op'.i = op.i + 1 =>
            op'.hash = Wrap31(op.hash, op.str[op'.i])]_vars

\* The hash of a string of more than 200 characters has wrapped to a
\* negative value, and the key returned for it starts with "-".
C39_Witness ==
    /\ op.name = "key"
    /\ Len(op.str) > 200
    /\ op.hash < 0
    /\ op.key.text[1] = 45

-----------------------------------------------------------------------------
(* ApiService.stream                                                       *)

StrData   == <<100, 97, 116, 97, 58>>                 \* "data:"
StrDone   == <<91, 68, 79, 78, 69, 93>>               \* "[DONE]"
\* '{"choices":[{"delta":{"content":"'
StrJsonPrefix ==
    <<123, 34, 99, 104, 111, 105, 99, 101, 115, 34, 58, 91, 123, 34, 100,
      101, 108, 116, 97, 34, 58, 123, 34, 99, 111, 110, 116, 101, 110, 116,
      34, 58, 34>>
StrJsonSuffix == <<34, 125, 125, 93, 125>>            \* '"}}]}'
\* '{"choices":[{"delta":{}}]}', a frame without content
StrJsonNoContent ==
    <<123, 34, 99, 104, 111, 105, 99, 101, 115, 34, 58, 91, 123, 34, 100,
      101, 108, 116, 97, 34, 58, 123, 125, 125, 93, 125>>
StrOops   == <<123, 111, 111, 112, 115>>              \* '{oops', not JSON
\* "Cerebras streaming error: Bad Request"
StrStreamError ==
    <<67, 101, 114, 101, 98, 114, 97, 115, 32, 115, 116, 114, 101, 97, 109,
      105, 110, 103, 32, 101, 114, 114, 111, 114, 58, 32, 66, 97, 100, 32,
      82, 101, 113, 117, 101, 115, 116>>
StrFailedToFetch ==
    <<70, 97, 105, 108, 101, 100, 32, 116, 111, 32, 102, 101, 116, 99, 104>>
StrNetworkError ==
    <<110, 101, 116, 119, 111, 114, 107, 32, 101, 114, 114, 111, 114>>
StrCallbackFailed ==
    <<99, 97, 108, 108, 98, 97, 99, 107, 32, 102, 97, 105, 108, 101, 100>>

\* TextDecoder.decode(value, {stream: true}) for UTF-8 sequences of one or
\* two bytes: the text decoded from the held-back bytes followed by value,
\* and the bytes of an incomplete sequence held back for the next call.
\* A lead byte starts a two-byte sequence; the byte after a lead byte is
\* its continuation when it is in 128..191.  Any other byte of 128 or more
\* decodes to U+FFFD.
Indices(s) == [i \in 1..Len(s) |-> i]
IsLead(b) == b >= 192 /\ b < 224
IsCont(bytes, i) ==
    i > 1 /\ IsLead(bytes[i - 1]) /\ bytes[i] >= 128 /\ bytes[i] < 192
Utf8CharAt(bytes, i) ==
    IF bytes[i] < 128 THEN bytes[i]
    ELSE IF IsLead(bytes[i]) /\ i < Len(bytes) /\ IsCont(bytes, i + 1)
    THEN (bytes[i] - 192) * 64 + (bytes[i + 1] - 128)
    ELSE 65533
Utf8Decode(bytes) ==
    LET held(i)  == i = Len(bytes) /\ IsLead(bytes[i])
        start(i) == ~IsCont(bytes, i) /\ ~held(i)
        at       == SelectSeq(Indices(bytes), start)
    IN  [text    |-> [j \in 1..Len(at) |-> Utf8CharAt(bytes, at[j])],
         pending |-> IF bytes # << >> /\ held(Len(bytes))
                     THEN <<bytes[Len(bytes)]>> ELSE << >>]

TextDecoder_decode(pending, value) == Utf8Decode(pending \o value)

\* chunk.split('\n')
SplitLines(s) ==
    LET isNl(i) == s[i] = 10
        nl      == SelectSeq(Indices(s), isNl)
    IN  [j \in 1..(Len(nl) + 1) |->
            SubSeq(s, IF j = 1 THEN 1 ELSE nl[j - 1] + 1,
                      IF j = Len(nl) + 1 THEN Len(s) ELSE nl[j] - 1)]

\* String.prototype.trim
IsWhite(ch) == ch \in {9, 10, 11, 12, 13, 32, 160}
Trim(s) ==
    LET black == {i \in 1..Len(s) : ~IsWhite(s[i])}
    IN  IF black = {} THEN << >>
        ELSE SubSeq(s, CHOOSE i \in black : \A j \in black : i <= j,
                       CHOOSE i \in black : \A j \in black : i >= j)

StartsWith(s, p) == Len(s) >= Len(p) /\ SubSeq(s, 1, Len(p)) = p
EndsWith(s, p) == Len(s) >= Len(p) /\ SubSeq(s, Len(s) - Len(p) + 1, Len(s)) = p

\* line.replace('data:', ''): the first occurrence is removed.
RemoveFirst(s, p) ==
    IF Includes(s, p)
    THEN LET i == CHOOSE j \in 0..(Len(s) - Len(p)) :
                     /\ SubSeq(s, j + 1, j + Len(p)) = p
                     /\ \A k \in 0..(j - 1) : SubSeq(s, k + 1, k + Len(p)) # p
         IN  SubSeq(s, 1, i) \o SubSeq(s, i + Len(p) + 1, Len(s))
    ELSE s

\* JSON.parse(data) followed by parsed.choices?.[0]?.delta?.content || ''.
\* The payloads that occur are the two frame shapes, which parse, and corrupt
\* frames and fragments cut out of frames, which JSON.parse rejects.
PlainChar(ch) == ch >= 32 /\ ch # 34 /\ ch # 92
IsContentJson(data) ==
    /\ Len(data) >= Len(StrJsonPrefix) + Len(StrJsonSuffix)
    /\ StartsWith(data, StrJsonPrefix)
    /\ EndsWith(data, StrJsonSuffix)
    /\ \A i \in (Len(StrJsonPrefix) + 1)..(Len(data) - Len(StrJsonSuffix)) :
           PlainChar(data[i])
JsonDelta(data) ==
    IF IsContentJson(data)
    THEN [ok |-> TRUE,
          delta |-> SubSeq(data, Len(StrJsonPrefix) + 1,
                           Len(data) - Len(StrJsonSuffix))]
    ELSE IF data = StrJsonNoContent
    THEN [ok |-> TRUE, delta |-> StrEmpty]
    ELSE [ok |-> FALSE, delta |-> StrEmpty]

\* One callback invocation, as logged in session.events.
Event(cb, text, error) == [cb |-> cb, text |-> text, error |-> error]
\* The error a throwing caller callback raises.
CallbackError == Error(StrCallbackFailed, "callback")

\* Variant of the line handler that emits the delta without accumulating it.
StreamProcessLine_noAppend(s, line) ==
    LET data == Trim(RemoveFirst(line, StrData))
        j    == JsonDelta(data)
    IN  IF data = StrDone THEN [s EXCEPT !.doneSeen = TRUE]
        ELSE IF j.ok /\ j.delta # StrEmpty
        THEN [s EXCEPT !.events = Append(@, Event("onChunk", j.delta, NoError)),
                       !.lateChunks = IF s.doneSeen THEN @ + 1 ELSE @]
        ELSE s

\* Variant of the line handler that keeps the last delta only ("=" for "+=").
StreamProcessLine_replace(s, line) ==
    LET data == Trim(RemoveFirst(line, StrData))
        j    == JsonDelta(data)
    IN  IF data = StrDone THEN [s EXCEPT !.doneSeen = TRUE]
        ELSE IF j.ok /\ j.delta # StrEmpty
        THEN [s EXCEPT !.fullText = j.delta,
                       !.events = Append(@, Event("onChunk", j.delta, NoError)),
                       !.lateChunks = IF s.doneSeen THEN @ + 1 ELSE @]
        ELSE s

\* Lines 1116-1128: one 'data:' line.  s is the session.
StreamProcessLine(s, line) ==
    LET data == Trim(RemoveFirst(line, StrData))
        j    == JsonDelta(data)
    IN  IF data = StrDone THEN [s EXCEPT !.doneSeen = TRUE]   \* continue
        ELSE IF j.ok /\ j.delta # StrEmpty
        THEN \* an onChunk that throws is caught by the inner catch
             [s EXCEPT !.fullText = @ \o j.delta,
                       !.events = Append(@, Event("onChunk", j.delta, NoError)),
                       !.lateChunks = IF s.doneSeen THEN @ + 1 ELSE @]
        ELSE s

\* Lines 1113-1129: the lines of one decoded chunk, in order.
RECURSIVE StreamProcessLines(_, _, _)
StreamProcessLines(s, lines, i) ==
    IF i > Len(lines) THEN s
    ELSE IF StartsWith(Trim(lines[i]), StrData)
         THEN StreamProcessLines(StreamProcessLine(s, lines[i]), lines, i + 1)
         ELSE StreamProcessLines(s, lines, i + 1)

\* Lines 1109-1129: reader.read() resolved with value, not done.
ApiService_stream_read(s, value) ==
    LET d == TextDecoder_decode(s.pending, value)
        u == StreamProcessLines(s, SplitLines(d.text), 1)
    IN  [u EXCEPT !.pending = d.pending, !.pos = @ + Len(value)]

\* Variant of the catch block that reports the error and lets the stream
\* call go on.
InvokeOnError_resume(s, e) ==
    [s EXCEPT !.events = Append(@, Event("onError", StrEmpty, e))]

\* onError(error) in a catch block; when onError throws the promise
\* returned by stream rejects and nothing else is invoked.
InvokeOnError(s, e) ==
    [s EXCEPT !.pc = "returned",
              !.events = Append(@, Event("onError", StrEmpty, e))]

\* onComplete(text) inside a try block: when it throws, the catch block
\* invokes onError with what it threw.
InvokeOnComplete(s, text) ==
    LET u == [s EXCEPT !.events = Append(@, Event("onComplete", text, NoError))]
    IN  IF "onComplete" \in s.throwing
        THEN InvokeOnError(u, CallbackError)
        ELSE [u EXCEPT !.pc = "returned"]

\* Variant of the end of the read loop that returns without a callback.
ApiService_stream_done_noCallback(s) == [s EXCEPT !.pc = "returned"]

\* Lines 1110 and 1132: reader.read() resolved with done.
ApiService_stream_done(s) == InvokeOnComplete(s, s.fullText)

\* Variant of the fallback that reports completion without the chunk.
ApiService_stream_fallback_noChunk(s, res) ==
    IF res.kind = "throw" THEN InvokeOnError(s, res.error)
    ELSE InvokeOnComplete(s, res.response)

\* Lines 1071-1076: the awaited this.call(...) settled with result res.
ApiService_stream_fallback(s, res) ==
    IF res.kind = "throw" THEN InvokeOnError(s, res.error)
    ELSE LET u == [s EXCEPT !.events =
                       Append(@, Event("onChunk", res.response, NoError))]
         IN  IF "onChunk" \in s.throwing
             THEN InvokeOnError(u, CallbackError)
             ELSE InvokeOnComplete(u, res.response)

-----------------------------------------------------------------------------
(* SpecStream: one call of ApiService.stream.                              *)

StrA      == <<97>>                                   \* "a"
StrB      == <<98>>                                   \* "b"
BytesEAcute == <<195, 169>>                           \* UTF-8 of U+00E9
StrEAcute == <<233>>                                  \* the decoded character
BytesNLNL == <<10, 10>>

\* The bytes of the frame 'data: <payload>\n\n'.
Frame(payload) == StrData \o <<32>> \o payload \o BytesNLNL
DeltaFrame(delta) == Frame(StrJsonPrefix \o delta \o StrJsonSuffix)

\* The response bodies the server may send: two deltas and the sentinel; a
\* corrupt frame between two deltas; a delta after the sentinel; a frame
\* without content and a two-byte character; an empty body.
Bodies ==
    { DeltaFrame(StrA) \o DeltaFrame(StrB) \o Frame(StrDone),
      DeltaFrame(StrA) \o Frame(StrOops) \o DeltaFrame(StrB),
      Frame(StrDone) \o DeltaFrame(StrB),
      Frame(StrJsonNoContent) \o DeltaFrame(BytesEAcute),
      << >> }

\* The options of the stream calls drawn, and the callbacks that throw.
StreamOptions == {r \in Requests : r.userPrompt = Str2p2 /\ ~r.stream}
ThrowSets == {{}, {"onChunk"}, {"onComplete"}}

InitStream ==
    /\ cache \in {<< >>, <<[key |-> KeyOf[StrS, Str2p2, StrM1],
                           value |-> [response |-> Str4, timestamp |-> 0]]>>}
    /\ now = 0
    /\ op = NoOp
    /\ calls = [c \in Procs |-> IdleCall]
    /\ session = NoSession

\* Lines 1060-1081: stream is called and runs to its first await, which is
\* this.call(...) without a primary key and fetch(...) with one.
StreamStart(opts, throwing) ==
    /\ session.pc = "idle"
    /\ IF ~opts.apiKeys.cerebras
       THEN LET r == ApiService_call_start(IdleCall, [opts EXCEPT !.stream = FALSE],
                                           cache, now)
            IN  /\ cache' = r.cache
                /\ calls' = [calls EXCEPT ![1] = r.call]
                /\ session' = [NoSession EXCEPT !.pc = "awaitCall",
                                  !.path = "fallback",
                                  !.apiKeys = opts.apiKeys,
                                  !.throwing = throwing]
       ELSE /\ session' = [NoSession EXCEPT !.pc = "awaitFetch",
                              !.path = "primary",
                              !.apiKeys = opts.apiKeys,
                              !.throwing = throwing]
            /\ UNCHANGED <<cache, calls>>
    /\ UNCHANGED <<now, op>>

\* Lines 1071-1077: the awaited call has settled.
FallbackResume ==
    /\ session.pc = "awaitCall"
    /\ calls[1].pc = "done"
    /\ session' = ApiService_stream_fallback(session, calls[1].res)
    /\ UNCHANGED <<cache, now, op, calls>>

\* Variant of the fetch rejection that fails over to the secondary adapter
\* when a secondary key is present, as call does.
FetchReject_failover ==
    /\ session.pc = "awaitFetch"
    /\ IF session.apiKeys.gemini
       THEN /\ calls' = [calls EXCEPT ![1] =
                            [IdleCall EXCEPT !.pc = "awaitGeminiOnly",
                                             !.nGemini = 1]]
            /\ session' = [session EXCEPT !.pc = "awaitCall"]
       ELSE /\ session' = InvokeOnError(session,
                                        Error(StrFailedToFetch, "fetch"))
            /\ UNCHANGED calls
    /\ UNCHANGED <<cache, now, op>>

\* Line 1081: fetch rejected.
FetchReject ==
    /\ session.pc = "awaitFetch"
    /\ session' = InvokeOnError(session, Error(StrFailedToFetch, "fetch"))
    /\ UNCHANGED <<cache, now, op, calls>>

\* Lines 1100-1106: fetch resolved; a response that is not ok throws.
FetchResolve(ok, body) ==
    /\ session.pc = "awaitFetch"
    /\ session' = IF ok
                  THEN [session EXCEPT !.pc = "reading", !.body = body]
                  ELSE InvokeOnError(session,
                                     Error(StrStreamError, "ApiService.stream"))
    /\ UNCHANGED <<cache, now, op, calls>>

\* Lines 1109-1129: reader.read() delivers the next k bytes of the body.
ReadValue ==
    /\ session.pc = "reading"
    /\ \E k \in 1..(Len(session.body) - session.pos) :
          session' = ApiService_stream_read(session,
                        SubSeq(session.body, session.pos + 1, session.pos + k))
    /\ UNCHANGED <<cache, now, op, calls>>

\* Lines 1110 and 1132: the body is exhausted and reader.read() reports done.
ReadDone ==
    /\ session.pc = "reading"
    /\ session.pos = Len(session.body)
    /\ session' = ApiService_stream_done(session)
    /\ UNCHANGED <<cache, now, op, calls>>

\* Line 1109: reader.read() rejected.
ReadFail ==
    /\ session.pc = "reading"
    /\ session' = InvokeOnError(session, Error(StrNetworkError, "reader.read"))
    /\ UNCHANGED <<cache, now, op, calls>>

NextStream ==
    \/ \E opts \in StreamOptions, th \in ThrowSets : StreamStart(opts, th)
    \/ \E r \in Responses : GeminiOnlyResolve(1, r)
    \/ \E e \in GeminiErrors : GeminiOnlyReject(1, e)
    \/ FallbackResume
    \/ FetchReject
    \/ \E ok \in BOOLEAN, body \in Bodies : FetchResolve(ok, body)
    \/ ReadValue
    \/ ReadDone
    \/ ReadFail

SpecStream == InitStream /\ [][NextStream]_vars

-----------------------------------------------------------------------------
(* ApiService.Cerebras.call and ApiService.Gemini.call                     *)

\* A response body as response.json() sees it.  kind is "invalid" for text
\* that is not JSON, "null" for the JSON text null, and "object" for a JSON
\* object; of an object, errorMessage is the value of error.message (Null
\* when there is no such field), shape tells whose completion path exists
\* ("cerebras" for choices[0].message.content, "gemini" for
\* candidates[0].content.parts[0].text, "none" for neither), and content is
\* the string at the end of that path.
JsonBody(kind, errorMessage, shape, content) ==
    [kind |-> kind, errorMessage |-> errorMessage, shape |-> shape,
     content |-> content]

\* fetch's Response: ok (a 2xx status), statusText ("" or "Unauthorized")
\* and the body: text that is not JSON, null, an object without error, with
\* error.message "" or "bad key", or with a completion path.
AdapterResponses ==
    [ok : BOOLEAN,
     statusText : {StrEmpty,
                   <<85, 110, 97, 117, 116, 104, 111, 114, 105, 122, 101, 100>>},
     body : {JsonBody("invalid", Null, "none", StrEmpty),
             JsonBody("null", Null, "none", StrEmpty)}
            \cup {JsonBody("object", m, "none", StrEmpty) :
                    m \in {Null, Text(StrEmpty),
                           Text(<<98, 97, 100, 32, 107, 101, 121>>)}}
            \cup {JsonBody("object", Null, sh, c) :
                    sh \in {"cerebras", "gemini"}, c \in Responses}]

\* The errors the engine throws; their message texts are engine-defined and
\* stand here as the error's name.
TypeError ==                                          \* "TypeError"
    Error(<<84, 121, 112, 101, 69, 114, 114, 111, 114>>, "TypeError")
SyntaxError ==                                        \* "SyntaxError"
    Error(<<83, 121, 110, 116, 97, 120, 69, 114, 114, 111, 114>>,
          "SyntaxError")

\* The `${provider} API error: ${response.statusText}` of lines 972, 1036.
GenericError(provider, statusText) ==
    (IF provider = "cerebras"
     THEN \* "Cerebras API error: "
          <<67, 101, 114, 101, 98, 114, 97, 115, 32, 65, 80, 73, 32, 101, 114,
            114, 111, 114, 58, 32>>
     ELSE \* "Gemini API error: "
          <<71, 101, 109, 105, 110, 105, 32, 65, 80, 73, 32, 101, 114, 114,
            111, 114, 58, 32>>)
        \o statusText

\* Lines 970-976 and 1034-1040: the adapter after fetch resolved with resp.
\* Not ok: errorData is the parsed body, {} when it does not parse;
\* errorData.error of a null errorData is a TypeError; a falsy
\* error?.message gives the generic message.  Ok: json() rejects for text
\* that is not JSON, and the completion path of a body without it is a
\* TypeError.
Adapter_settle(provider, resp) ==
    IF ~resp.ok
    THEN IF resp.body.kind = "null" THEN Thrown(TypeError)
         ELSE IF resp.body.kind = "object" /\ Truthy(resp.body.errorMessage)
         THEN Thrown(Error(resp.body.errorMessage.text, "adapter"))
         ELSE Thrown(Error(GenericError(provider, resp.statusText),
                           "adapter"))
    ELSE IF resp.body.kind = "invalid" THEN Thrown(SyntaxError)
    ELSE IF resp.body.kind = "null" \/ resp.body.shape # provider
    THEN Thrown(TypeError)
    ELSE Returned(resp.body.content, provider, FALSE, FALSE)

-----------------------------------------------------------------------------
(* SpecAdapter: calls of the two provider adapters, one at a time.  op     *)
(* holds the adapter call: its provider, where it is, the response fetch   *)
(* gave it and its result.                                                 *)

AdapterIdle ==
    [name |-> "adapter", pc |-> "idle", provider |-> "none",
     resp |-> [ok |-> FALSE, statusText |-> StrEmpty,
               body |-> JsonBody("invalid", Null, "none", StrEmpty)],
     result |-> NoResult]

InitAdapter ==
    /\ cache = << >>
    /\ now = 0
    /\ op = AdapterIdle
    /\ calls = [c \in Procs |-> IdleCall]
    /\ session = NoSession

\* Lines 949-951 and 1012-1014: the adapter is called and awaits fetch.
AdapterInvoke(provider) ==
    /\ op.pc \in {"idle", "done"}
    /\ op' = [AdapterIdle EXCEPT !.pc = "awaitFetch", !.provider = provider]
    /\ UNCHANGED <<cache, now, calls, session>>

\* fetch rejected: the catch block rethrows the error (lines 977-980).
AdapterFetchReject ==
    /\ op.pc = "awaitFetch"
    /\ op' = [op EXCEPT !.pc = "done",
                 !.result = Thrown(Error(StrFailedToFetch, "fetch"))]
    /\ UNCHANGED <<cache, now, calls, session>>

\* fetch resolved with resp: the adapter awaits response.json().
AdapterFetchResolve(resp) ==
    /\ op.pc = "awaitFetch"
    /\ op' = [op EXCEPT !.pc = "awaitJson", !.resp = resp]
    /\ UNCHANGED <<cache, now, calls, session>>

\* response.json() settled: the adapter returns or throws.
AdapterJsonSettle ==
    /\ op.pc = "awaitJson"
    /\ op' = [op EXCEPT !.pc = "done",
                 !.result = Adapter_settle(op.provider, op.resp)]
    /\ UNCHANGED <<cache, now, calls, session>>

NextAdapter ==
    \/ \E provider \in {"cerebras", "gemini"} : AdapterInvoke(provider)
    \/ AdapterFetchReject
    \/ \E resp \in AdapterResponses : AdapterFetchResolve(resp)
    \/ AdapterJsonSettle

SpecAdapter == InitAdapter /\ [][NextAdapter]_vars

\* C37 (as claimed): an adapter call that got a response which is not 2xx
\* has thrown, with the body's error.message as the message when the body
\* is JSON with that field and with the generic message of its provider and
\* the status text otherwise; one that got a 2xx response with its
\* provider's completion path has returned the text at that path.
C37_AdapterErrors ==
    (op.name = "adapter" /\ op.pc = "done" /\ op.result.error.thrownBy # "fetch")
    => LET b == op.resp.body
       IN  /\ ~op.resp.ok =>
                /\ op.result.kind = "throw"
                /\ op.result.error.message =
                      IF b.kind = "object" /\ ~b.errorMessage.isNull
                      THEN b.errorMessage.text
                      ELSE GenericError(op.provider, op.resp.statusText)
           /\ (op.resp.ok /\ b.kind = "object" /\ b.shape = op.provider) =>
                op.result = Returned(b.content, op.provider, FALSE, FALSE)

-----------------------------------------------------------------------------
(* Claims about ApiService.stream, checked under SpecStream.               *)

\* The concatenation of the strings passed to onChunk among the first n
\* logged callback invocations.
RECURSIVE ChunksBefore(_, _)
ChunksBefore(ev, n) ==
    IF n = 0 THEN StrEmpty
    ELSE ChunksBefore(ev, n - 1)
            \o (IF ev[n].cb = "onChunk" THEN ev[n].text ELSE StrEmpty)

\* C10: whenever onComplete is invoked, on either path, its argument is the
\* concatenation, in invocation order, of the strings passed to onChunk
\* before it in that stream call.
C10_CompleteIsConcatOfChunks ==
    \A i \in 1..Len(session.events) :
        session.events[i].cb = "onComplete" =>
            session.events[i].text = ChunksBefore(session.events, i - 1)

\* C10 witness: a primary stream delivered "a" and then "b" to onChunk and
\* then called onComplete.
C10_Witness ==
    /\ session.path = "primary"
    /\ session.pc = "returned"
    /\ Len(session.events) = 3
    /\ session.events[1] = Event("onChunk", StrA, NoError)
    /\ session.events[2] = Event("onChunk", StrB, NoError)
    /\ session.events[3].cb = "onComplete"

\* The strings passed to onChunk, in invocation order.
ChunkTexts(ev) ==
    LET isChunk(e) == e.cb = "onChunk"
        sel        == SelectSeq(ev, isChunk)
    IN  [i \in 1..Len(sel) |-> sel[i].text]

\* The deltas of the well-formed frames of a response body that carry a
\* non-empty delta, in body order: the lines 'data: <payload>' of the decoded
\* body whose payload is a JSON object with a non-empty delta content.
FrameDeltas(body) ==
    LET lines         == SplitLines(Utf8Decode(body).text)
        payload(l)    == SubSeq(l, Len(StrData) + 2, Len(l))
        wellFormed(l) == /\ StartsWith(l, StrData \o <<32>>)
                         /\ IsContentJson(payload(l))
                         /\ JsonDelta(payload(l)).delta # StrEmpty
        sel           == SelectSeq(lines, wellFormed)
    IN  [i \in 1..Len(sel) |-> JsonDelta(payload(sel[i])).delta]

\* C11 (as claimed): on the primary path, once every byte of the response
\* body has been delivered by reader.read(), however the bytes were split
\* across reads, the strings passed to onChunk are exactly the deltas of the
\* body's well-formed frames, once each and in body order.
C11_EveryFrameOneChunk ==
    (/\ session.path = "primary"
     /\ session.pc \in {"reading", "returned"}
     /\ session.pos = Len(session.body)) =>
        ChunkTexts(session.events) = FrameDeltas(session.body)

\* The concatenation of a sequence of strings.
RECURSIVE Concat(_)
Concat(ss) == IF ss = << >> THEN StrEmpty ELSE Head(ss) \o Concat(Tail(ss))

\* Whether a response body has a 'data:' line whose payload is neither the
\* sentinel nor parseable JSON.
HasCorruptFrame(body) ==
    \E l \in {SplitLines(Utf8Decode(body).text)[i] :
                 i \in 1..Len(SplitLines(Utf8Decode(body).text))} :
        /\ StartsWith(l, StrData)
        /\ Trim(RemoveFirst(l, StrData)) # StrDone
        /\ ~JsonDelta(Trim(RemoveFirst(l, StrData))).ok

\* C12 (as claimed): on the primary path, when the body holds a corrupt
\* frame and every byte of it has been delivered, the corrupt frame has
\* caused no onError (the only onError possible comes from a failed read or
\* a throwing callback), onChunk has been called for the deltas of all the
\* valid frames, those after the corrupt frame included, in order, and
\* onComplete, once invoked, receives their concatenation.
C12_CorruptFrameSkipped ==
    (/\ session.path = "primary"
     /\ session.pc \in {"reading", "returned"}
     /\ HasCorruptFrame(session.body)
     /\ session.pos = Len(session.body)) =>
        /\ ChunkTexts(session.events) = FrameDeltas(session.body)
        /\ \A i \in 1..Len(session.events) :
              /\ session.events[i].cb = "onError" =>
                    session.events[i].error.thrownBy \in {"reader.read", "callback"}
              /\ session.events[i].cb = "onComplete" =>
                    session.events[i].text = Concat(FrameDeltas(session.body))

\* C13 (as claimed): on the primary path, onChunk is never invoked after a
\* 'data: [DONE]' line has been processed in that stream call.
C13_NoChunkAfterDone ==
    session.path = "primary" => session.lateChunks = 0

\* The errors of a transport failure: fetch rejecting, a response that is
\* not ok, reader.read() rejecting.
TransportErrors ==
    {Error(StrFailedToFetch, "fetch"), Error(StrStreamError, "ApiService.stream"),
     Error(StrNetworkError, "reader.read")}

\* Whether the last callback invoked in session s is onError with a
\* transport error.
EndedByTransportError(s) ==
    /\ s.events # << >>
    /\ s.events[Len(s.events)].cb = "onError"
    /\ s.events[Len(s.events)].error \in TransportErrors

\* C14: on the primary path, a step in which fetch rejects, the response is
\* not ok, or reader.read() rejects invokes onError, once, with that error
\* and nothing else; and once onError has been invoked for a transport
\* failure no callback is invoked again in that stream call.
C14_TransportFailure ==
    [][/\ (FetchReject \/ (\E b \in Bodies : FetchResolve(FALSE, b)) \/ ReadFail) =>
            /\ session.path = "primary"
            /\ Len(session'.events) = Len(session.events) + 1
            /\ SubSeq(session'.events, 1, Len(session.events)) = session.events
            /\ EndedByTransportError(session')
            /\ \A i \in 1..Len(session.events) : session.events[i].cb = "onChunk"
       /\ EndedByTransportError(session) => session'.events = session.events]_vars

\* C14 witness: reader.read() failed after onChunk had been invoked, and
\* onError is the last callback of the call.
C14_Witness ==
    /\ session.path = "primary"
    /\ session.pc = "returned"
    /\ Len(session.events) = 2
    /\ session.events[1] = Event("onChunk", StrA, NoError)
    /\ session.events[2] = Event("onError", StrEmpty,
                                 Error(StrNetworkError, "reader.read"))

\* C15 (as claimed): in every stream call, an invocation of onComplete or of
\* onError is the last callback invocation of the call, so that at most one
\* of the two is invoked, at most once, and nothing follows it.
C15_TerminalExclusive ==
    \A i \in 1..Len(session.events) :
        session.events[i].cb \in {"onComplete", "onError"} =>
            i = Len(session.events)

\* C16 (as claimed): a stream call without a primary key delegates to
\* ApiService.call with stream = FALSE and never awaits a streaming fetch or
\* a read; when it has returned after the delegated call succeeded, onChunk
\* has been invoked exactly once, first, with the whole response, and
\* onComplete next with the same string; when it has returned after the
\* delegated call rejected, onError has been invoked once with that error
\* and no other callback has been invoked.
C16_FallbackDelegates ==
    session.path = "fallback" =>
        /\ session.pc \in {"awaitCall", "returned"}
        /\ session.body = << >>
        /\ ~calls[1].req.stream
        /\ session.pc = "returned" =>
              IF calls[1].res.kind = "return"
              THEN /\ Len(session.events) >= 2
                   /\ session.events[1]
                        = Event("onChunk", calls[1].res.response, NoError)
                   /\ session.events[2]
                        = Event("onComplete", calls[1].res.response, NoError)
                   /\ Len(ChunkTexts(session.events)) = 1
              ELSE session.events
                        = <<Event("onError", StrEmpty, calls[1].res.error)>>

\* C31: in a stream call made with a primary key, no step invokes an adapter
\* of call (the secondary adapter in particular, whatever keys are present
\* and however the stream ends) and no step reads or writes the cache.
C31_PrimaryIsSingleProvider ==
    [][session'.path = "primary" =>
          /\ cache' = cache
          /\ calls' = calls
          /\ \A c \in Procs :
                /\ calls'[c].nGemini = 0
                /\ calls'[c].nCerebras = 0
                /\ calls'[c].lookupKey.isNull
                /\ calls'[c].storedKey.isNull]_vars

\* A stream call with both keys has ended with onError after the primary
\* stream failed, while the cache holds an entry.
C31_Witness ==
    /\ session.path = "primary"
    /\ session.pc = "returned"
    /\ session.apiKeys.gemini
    /\ session.events # << >>
    /\ session.events[Len(session.events)].cb = "onError"
    /\ cache # << >>
    /\ calls[1] = IdleCall

-----------------------------------------------------------------------------
(* SpecStreamFair: one call of ApiService.stream whose awaited promises    *)
(* all settle: the fetch, every reader.read(), and, on the fallback path,  *)
(* the adapter promise inside call and the awaited call itself.            *)

\* The fetch settles; the response bodies of these calls are one delta and
\* the sentinel, a corrupt frame, and an empty body.
FetchSettles ==
    \/ FetchReject
    \/ \E ok \in BOOLEAN,
          body \in {DeltaFrame(StrA) \o Frame(StrDone), Frame(StrOops), << >>} :
          FetchResolve(ok, body)
ReadSettles == ReadValue \/ ReadDone \/ ReadFail
FallbackSettles ==
    \/ \E r \in Responses : GeminiOnlyResolve(1, r)
    \/ \E e \in GeminiErrors : GeminiOnlyReject(1, e)
    \/ FallbackResume

NextStreamFair ==
    \/ \E opts \in StreamOptions, th \in ThrowSets : StreamStart(opts, th)
    \/ FetchSettles
    \/ ReadSettles
    \/ FallbackSettles

SpecStreamFair ==
    /\ InitStream /\ [][NextStreamFair]_vars
    /\ WF_vars(FetchSettles)
    /\ WF_vars(ReadSettles)
    /\ WF_vars(FallbackSettles)

\* The stream call has ended and has invoked onComplete or onError.
Terminated(s) ==
    /\ s.pc = "returned"
    /\ \E i \in 1..Len(s.events) : s.events[i].cb \in {"onComplete", "onError"}

\* C35: a stream call whose awaited promises all settle ends, and has then
\* invoked onComplete or onError; and the read loop is left only by a step
\* in which reader.read() reports done or fails, so that a stream whose reader
\* does neither stays in the loop.
C35_StreamTerminates ==
    /\ (session.pc # "idle") ~> Terminated(session)
    /\ [][(session.pc = "reading" /\ session'.pc # "reading") =>
            (ReadDone \/ ReadFail)]_vars

\* A stream on the primary path has read its whole body and has ended with
\* onComplete.
C35_Witness ==
    /\ session.path = "primary"
    /\ session.pc = "returned"
    /\ session.pos = Len(session.body)
    /\ session.pos > 0
    /\ session.events[Len(session.events)].cb = "onComplete"

\* C36: in every step of a stream call on the primary path the accumulated
\* text keeps its previous value as a prefix and is extended by exactly the
\* strings passed to onChunk in that step, in order; it changes only in steps
\* that invoke onChunk, and at every moment it is the concatenation of the
\* strings passed to onChunk so far.
C36_TextOnlyGrows ==
    [][session'.path = "primary" =>
        LET n   == Len(session.events)
            new == SubSeq(session'.events, n + 1, Len(session'.events))
        IN  /\ Len(session'.events) >= n
            /\ SubSeq(session'.events, 1, n) = session.events
            /\ session'.fullText
                 = session.fullText \o ChunksBefore(new, Len(new))
            /\ (session'.fullText # session.fullText)
                 <=> (\E i \in 1..Len(new) : new[i].cb = "onChunk")
            /\ session'.fullText
                 = ChunksBefore(session'.events, Len(session'.events))]_vars

\* A stream on the primary path has accumulated "ab" from two invocations
\* of onChunk.
C36_Witness ==
    /\ session.path = "primary"
    /\ session.fullText = StrA \o StrB
    /\ Len(session.events) = 2
    /\ session.events[1] = Event("onChunk", StrA, NoError)
    /\ session.events[2] = Event("onChunk", StrB, NoError)

=============================================================================
